---- MODULE Spec2Model ----
(***************************************************************************)
(* EduAI backend: the authentication subsystem of app/api/auth.py,         *)
(* app/core/security.py, app/schemas/user.py and the users table reached   *)
(* through app/db/crud.py.  One action is one HTTP request handled from    *)
(* validation to response, with every database write the handler makes.    *)
(*                                                                         *)
(* Strings that the code inspects character by character (identifiers,     *)
(* e-mail addresses, passwords) are sequences of one-character strings.    *)
(* Error details are sequences of words, so that "detail contains ..." is  *)
(* a computation on the text the handler really sends.                     *)
(***************************************************************************)
EXTENDS Integers, Sequences, FiniteSets, TLC

VARIABLES
    users,     \* the users table: its rows in insertion order
    issued,    \* the tokens the server has handed to clients
    now,       \* the UTC clock, in ticks
    tz,        \* offset of the server's local time zone from UTC, in ticks
    resp,      \* the last response sent: [op, status, detail]
    nupdates,  \* profile updates written so far
    questions, \* the questions table: its rows in insertion order
    exams,     \* main.py's exam_storage.exams: the exams in creation order
    user_exams,\* main.py's exam_storage.user_exams: user_id -> list of exam ids
    pending,   \* submit_exam requests received and not yet handled
    done,      \* the responses of the submit_exam requests handled so far
    supabase,  \* the answers, results and progress tables
    evaluating,\* exam submissions under evaluation: the locals of each coroutine
    evaluated, \* the responses of the exam submissions evaluated so far
    signing,   \* signup requests under way: the position and locals of each
    signed     \* the responses of the signup requests answered so far

vars == <<users, issued, now, tz, resp, nupdates, questions, exams, user_exams, pending, done,
          supabase, evaluating, evaluated, signing, signed>>

\* the state of the account and token handlers / of the other handlers
authVars == <<users, issued, nupdates>>
evalVars == <<supabase, evaluating, evaluated>>
signupVars == <<signing, signed>>
otherVars == <<questions, exams, user_exams, pending, done, supabase, evaluating, evaluated,
               signing, signed>>

----------------------------------------------------------------------------
(* Bounds of the model (model time is counted in abstract ticks).          *)

\* the clock stops advancing at MaxTime
MaxTime == 3
\* token pairs (access, refresh) the clients hold at most
MaxTokenPairs == 2
\* profile updates (PUT /auth/me) written at most
MaxProfileUpdates == 1
\* lifetime of an access token in ticks (ACCESS_TOKEN_EXPIRE_MINUTES, scaled)
AccessTTL == 1
\* lifetime of a refresh token in ticks (REFRESH_TOKEN_EXPIRE_DAYS, scaled)
RefreshTTL == 2

\* offset of the server's local time from UTC, in ticks
TzOffsets == {-1, 0, 1}

----------------------------------------------------------------------------
(* Program constants.                                                      *)

UsernameMinLen == 3
UsernameMaxLen == 50
PasswordMinLen == 8
PasswordMaxLen == 100
FullNameMaxLen == 100
\* bcrypt, the only scheme of pwd_context, reads at most 72 bytes of a password
BcryptMaxBytes == 72
\* settings.ACCESS_TOKEN_EXPIRE_MINUTES, used for Token.expires_in
ACCESS_TOKEN_EXPIRE_MINUTES == 30

\* SQL NULL / Python None, one per type of value
NullTime == 0 - 1
NullText == <<>>
\* datetime.utcnow().isoformat() written to a column that no handler reads back
\* (created_at, updated_at): the text of a timestamp, its value left open
Stamp == "utcnow"
\* no row: ids of rows are positive
NoRow == [id |-> 0]
\* a payload without "sub"
NoSub == [id |-> 0].id

----------------------------------------------------------------------------
(* Text.                                                                   *)

RECURSIVE Repeat(_, _)
Repeat(c, n) == IF n <= 0 THEN <<>> ELSE Append(Repeat(c, n - 1), c)

HasChar(s, c) == \E i \in DOMAIN s : s[i] = c

CountChar(s, c) == Cardinality({i \in DOMAIN s : s[i] = c})

\* str.lower() on the alphabet the model uses
Lower(c) == IF c = "X" THEN "x" ELSE c

\* position of the "@" of an address with exactly one "@"
AtPos(s) == CHOOSE i \in DOMAIN s : s[i] = "@"

\* EmailStr: one "@", a non-empty local part, a dotted domain with non-empty labels
IsEmail(s) ==
    /\ CountChar(s, "@") = 1
    /\ LET a == AtPos(s)
           dom == SubSeq(s, a + 1, Len(s))
       IN  /\ a > 1
           /\ Len(dom) >= 3
           /\ HasChar(dom, ".")
           /\ dom[1] # "."
           /\ dom[Len(dom)] # "."

\* EmailStr normalises an accepted address: the domain is lower-cased
NormalizeEmail(s) ==
    LET a == AtPos(s)
    IN  [i \in DOMAIN s |-> IF i > a THEN Lower(s[i]) ELSE s[i]]

\* detail text contains the phrase (Python's `phrase in detail`, on words)
Contains(detail, phrase) ==
    \E i \in 0..(Len(detail) - Len(phrase)) :
        \A j \in 1..Len(phrase) : detail[i + j] = phrase[j]

D_EmailRegistered == <<"Email", "already", "registered">>
D_UsernameTaken == <<"Username", "already", "taken">>
D_CreateFailed == <<"Failed", "to", "create", "user", "account">>
D_Incorrect == <<"Incorrect", "username/email", "or", "password">>
D_Deactivated == <<"Account", "is", "deactivated">>
D_InvalidRefresh == <<"Invalid", "refresh", "token">>
D_UserNotFound == <<"User", "not", "found">>
D_UpdateFailed == <<"Failed", "to", "update", "profile">>
D_CurrentIncorrect == <<"Current", "password", "is", "incorrect">>
D_PasswordFailed == <<"Failed", "to", "update", "password">>
D_InvalidType == <<"Invalid", "token", "type">>
D_Expired == <<"Token", "has", "expired">>
D_NotValidated == <<"Could", "not", "validate", "credentials">>
D_InvalidPayload == <<"Invalid", "token", "payload">>
D_Validation == <<"validation", "error">>
D_Internal == <<"Internal", "Server", "Error">>
D_None == <<>>

\* the phrase tests/test_auth.py::test_login_invalid_credentials looks for
InvalidCredentialsPhrase == <<"Invalid", "credentials">>

----------------------------------------------------------------------------
(* Request inputs.                                                         *)

S_bob == <<"b", "o", "b">>
S_bo == <<"b", "o">>
S_mailA == <<"a", "@", "x", ".", "c">>
S_mailAUpper == <<"a", "@", "X", ".", "c">>
S_mailB == <<"b", "@", "x", ".", "c">>

\* e-mail fields sent to signup
EmailInputs == {S_mailA, S_mailAUpper, S_mailB}
\* username fields sent to signup: a plain one, one that is also an address, a short one
UsernameInputs == {S_bob, S_mailA, S_bo}
\* identifiers sent to login
IdentInputs == {S_bob, S_mailA, S_mailB}

P_one == Repeat("p", PasswordMinLen)
P_other == Repeat("q", PasswordMinLen)
\* two passwords that differ only after bcrypt's 72nd byte
P_longX == Repeat("p", BcryptMaxBytes) \o <<"X">>
P_longY == Repeat("p", BcryptMaxBytes) \o <<"Y">>

\* passwords sent to login and as current_password
PasswordInputs == {P_one, P_other, P_longX}
\* passwords sent to signup
SignupPasswords == {P_one, P_longX}
\* passwords sent as new_password
NewPasswords == {P_other, P_longY}

\* bcrypt salts. A salt is drawn at random for every hash, so the salt of a new
\* hash differs from the salt of the hash it replaces
FirstSalt == "s1"
FreshSalt(old) == IF old = "s1" THEN "s2" ELSE "s1"

----------------------------------------------------------------------------
(* app/core/security.py                                                    *)

Min(a, b) == IF a < b THEN a ELSE b

\* what bcrypt reads of a password
BcryptInput(password) == SubSeq(password, 1, Min(Len(password), BcryptMaxBytes))

\* pwd_context.hash: a fresh salt and the digest of the bytes bcrypt reads
hash_password(password, salt) ==
    [salt |-> salt, digest |-> BcryptInput(password)]

\* pwd_context.verify: hashes the candidate with the stored salt and compares
verify_password(plain_password, hashed_password) ==
    hash_password(plain_password, hashed_password.salt) = hashed_password

\* a bearer string that is no JWT signed with SECRET_KEY
Garbage == [sub |-> NoSub, type |-> "garbage", exp |-> 0]

create_access_token(sub) ==
    [sub |-> sub, type |-> "access", exp |-> now + AccessTTL]

create_refresh_token(sub) ==
    [sub |-> sub, type |-> "refresh", exp |-> now + RefreshTTL]

\* jose's jwt.decode: signature, then exp against the UTC clock
jwt_decode(token) ==
    IF token = Garbage THEN [ok |-> FALSE]
    ELSE IF token.exp < now THEN [ok |-> FALSE]
    ELSE [ok |-> TRUE, payload |-> token]

\* datetime.fromtimestamp(exp): the naive LOCAL time of the instant exp
fromtimestamp(exp) == exp + tz

Unauthorized(detail) == [ok |-> FALSE, status |-> 401, detail |-> detail]

\* a request that sends no credentials: the parameter `credentials` of the
\* dependency keeps its default, the HTTPBearer object `security` (the default is
\* not wrapped in Depends, so the scheme never runs and never reads a header)
NoCredentials == [sub |-> NoSub, type |-> "none", exp |-> 0]

\* `credentials.credentials` on the HTTPBearer object raises AttributeError,
\* which no handler catches: 500 Internal Server Error
AttributeError == [ok |-> FALSE, status |-> 500, detail |-> D_Internal]

\* verify_token without the check of the "type" field
verify_token_untyped(token, token_type) ==
    LET d == jwt_decode(token)
    IN  IF ~d.ok THEN Unauthorized(D_NotValidated)
        ELSE IF now > fromtimestamp(d.payload.exp) THEN Unauthorized(D_Expired)
        ELSE [ok |-> TRUE, payload |-> d.payload]

verify_token(token, token_type) ==
    LET d == jwt_decode(token)
    IN  IF ~d.ok THEN Unauthorized(D_NotValidated)
        ELSE IF d.payload.type # token_type THEN Unauthorized(D_InvalidType)
        ELSE IF now > fromtimestamp(d.payload.exp) THEN Unauthorized(D_Expired)
        ELSE [ok |-> TRUE, payload |-> d.payload]

SubOf(v, detail) ==
    IF ~v.ok THEN v
    ELSE IF v.payload.sub = NoSub THEN Unauthorized(detail)
    ELSE [ok |-> TRUE, user_id |-> v.payload.sub]

get_current_user_id(token) ==
    IF token = NoCredentials THEN AttributeError
    ELSE SubOf(verify_token(token, "access"), D_InvalidPayload)

get_refresh_token_user_id(token) ==
    IF token = NoCredentials THEN AttributeError
    ELSE SubOf(verify_token(token, "refresh"), <<"Invalid", "refresh", "token", "payload">>)

----------------------------------------------------------------------------
(* app/db/crud.py, UserCRUD, on the users table of app/db/schema.py.       *)
(* A table is the sequence of its rows in insertion order; every operator  *)
(* takes the table it runs against.                                        *)

Rows(table, field, value) == {i \in DOMAIN table : table[i][field] = value}

First(S) == CHOOSE i \in S : \A j \in S : i <= j

\* select("*").eq(field, value): result.data[0], or None
SelectOne(table, field, value) ==
    IF Rows(table, field, value) = {} THEN NoRow
    ELSE table[First(Rows(table, field, value))]

get_user_by_email(table, email) == SelectOne(table, "email", email)
get_user_by_username(table, username) == SelectOne(table, "username", username)
get_user_by_id(table, user_id) == SelectOne(table, "id", user_id)

\* uuid4: an id no row has
generate_id(table) == Len(table) + 1

\* the PRIMARY KEY and UNIQUE columns of the users table
UniqueViolation(table, row, except) ==
    \E i \in DOMAIN table :
        /\ i # except
        /\ \/ table[i].email = row.email
           \/ table[i].username = row.username
           \/ table[i].id = row.id

\* the row create_user inserts, with the column defaults the table adds
NewUserRow(table, email, username, password, full_name) ==
    [id |-> generate_id(table),
     email |-> email,
     username |-> username,
     hashed_password |-> hash_password(password, FirstSalt),
     full_name |-> full_name,
     is_active |-> TRUE,
     is_verified |-> FALSE,
     created_at |-> Stamp,
     updated_at |-> Stamp,
     last_login |-> NullTime]

\* create_user into a table without the UNIQUE constraints
create_user_unconstrained(table, email, username, password, full_name) ==
    LET row == NewUserRow(table, email, username, password, full_name)
    IN  [ok |-> TRUE, table |-> Append(table, row), row |-> row]

\* create_user: [ok, table, row]; the insert raises on a UNIQUE violation
create_user(table, email, username, password, full_name) ==
    LET row == NewUserRow(table, email, username, password, full_name)
    IN  IF UniqueViolation(table, row, 0)
        THEN [ok |-> FALSE, table |-> table, row |-> NoRow]
        ELSE [ok |-> TRUE, table |-> Append(table, row), row |-> row]

\* dict.update semantics: the fields of data replace those of the row
Patch(row, data) ==
    [f \in DOMAIN row |-> IF f \in DOMAIN data THEN data[f] ELSE row[f]]

\* update_user: stamps updated_at, updates the row with that id
update_user(table, user_id, update_data) ==
    LET data == [f \in (DOMAIN update_data) \cup {"updated_at"} |->
                    IF f = "updated_at" THEN Stamp ELSE update_data[f]]
        hit == Rows(table, "id", user_id)
    IN  IF hit = {} THEN [ok |-> TRUE, table |-> table, row |-> NoRow]
        ELSE LET i == First(hit)
                 row == Patch(table[i], data)
             IN  IF UniqueViolation(table, row, i)
                 THEN [ok |-> FALSE, table |-> table, row |-> NoRow]
                 ELSE [ok |-> TRUE, table |-> [table EXCEPT ![i] = row], row |-> row]

update_last_login(table, user_id) == update_user(table, user_id, [last_login |-> now])

----------------------------------------------------------------------------
(* app/schemas/user.py                                                     *)

UserResponseFields ==
    {"email", "username", "full_name", "id", "avatar_url", "is_active",
     "is_verified", "created_at", "last_login"}

UserProfileFields ==
    UserResponseFields \cup
    {"total_exams", "total_questions_answered", "average_score",
     "current_streak", "total_study_time_minutes", "level", "badges"}

\* a model that keeps the undeclared keys (extra = "allow")
ProjectAllowExtra(fields, data) == data

\* a pydantic model built from a dict keeps the declared fields and drops the rest
Project(fields, data) == [f \in (DOMAIN data) \cap fields |-> data[f]]

UserResponse(user) == Project(UserResponseFields, user)

UserProfile(profile_data) == Project(UserProfileFields, profile_data)

\* UserCreate
ValidUserCreate(email, username, password, full_name) ==
    /\ IsEmail(email)
    /\ Len(username) >= UsernameMinLen
    /\ Len(username) <= UsernameMaxLen
    /\ Len(password) >= PasswordMinLen
    /\ Len(password) <= PasswordMaxLen
    /\ (full_name = NullText \/ Len(full_name) <= FullNameMaxLen)

\* what UserResponse(**row) validates of a row: a row that fails raises ValidationError
ValidUserResponse(row) ==
    /\ IsEmail(row.email)
    /\ Len(row.username) >= UsernameMinLen
    /\ Len(row.username) <= UsernameMaxLen
    /\ (row.full_name = NullText \/ Len(row.full_name) <= FullNameMaxLen)

\* UserLogin
ValidUserLogin(username_or_email, password) ==
    /\ Len(username_or_email) >= 1
    /\ Len(password) >= 1

\* PasswordChange
ValidPasswordChange(current_password, new_password) ==
    /\ Len(current_password) >= 1
    /\ Len(new_password) >= PasswordMinLen
    /\ Len(new_password) <= PasswordMaxLen

\* Token
Token(access_token, refresh_token, expires_in) ==
    [access_token |-> access_token, refresh_token |-> refresh_token,
     token_type |-> "bearer", expires_in |-> expires_in]

----------------------------------------------------------------------------
(* app/api/auth.py: a handler is the outcome of one request against a      *)
(* users table: [status, body, table (the table afterwards), tokens (the   *)
(* tokens the response carries)].                                          *)

Found(row) == row.id # 0

Error(table, status, detail) ==
    [status |-> status, body |-> [detail |-> detail], table |-> table, tokens |-> {}]

Ok(status, body, table, tokens) ==
    [status |-> status, body |-> body, table |-> table, tokens |-> tokens]

\* signup without the lookup of the username
signup_no_username_check(table, email, username, password, full_name) ==
    IF ~ValidUserCreate(email, username, password, full_name)
    THEN Error(table, 422, D_Validation)
    ELSE IF Found(get_user_by_email(table, NormalizeEmail(email)))
    THEN Error(table, 400, D_EmailRegistered)
    ELSE LET c == create_user(table, NormalizeEmail(email), username, password, full_name)
         IN  IF c.ok
             THEN Ok(201, UserResponse(c.row), c.table, {})
             ELSE Error(table, 500, D_CreateFailed)

signup(table, email, username, password, full_name) ==
    IF ~ValidUserCreate(email, username, password, full_name)
    THEN Error(table, 422, D_Validation)
    ELSE IF Found(get_user_by_email(table, NormalizeEmail(email)))
    THEN Error(table, 400, D_EmailRegistered)
    ELSE IF Found(get_user_by_username(table, username))
    THEN Error(table, 400, D_UsernameTaken)
    ELSE LET c == create_user(table, NormalizeEmail(email), username, password, full_name)
         IN  IF c.ok
             THEN Ok(201, UserResponse(c.row), c.table, {})
             ELSE Error(table, 500, D_CreateFailed)

\* the lookup login makes for an identifier
LoginLookup(table, username_or_email) ==
    IF HasChar(username_or_email, "@")
    THEN get_user_by_email(table, username_or_email)
    ELSE get_user_by_username(table, username_or_email)

\* the detail of login's 401 for a wrong identifier or password
LoginFailureDetail == D_Incorrect

login(table, username_or_email, password) ==
    IF ~ValidUserLogin(username_or_email, password)
    THEN Error(table, 422, D_Validation)
    ELSE LET user == LoginLookup(table, username_or_email)
         IN  IF ~Found(user) \/ ~verify_password(password, user.hashed_password)
             THEN Error(table, 401, LoginFailureDetail)
             ELSE IF ~user.is_active
             THEN Error(table, 401, D_Deactivated)
             ELSE LET access == create_access_token(user.id)
                      refresh == create_refresh_token(user.id)
                      u == update_last_login(table, user.id)
                  IN  Ok(200,
                         Token(access, refresh, ACCESS_TOKEN_EXPIRE_MINUTES * 60),
                         u.table, {access, refresh})

\* refresh_token without the check that the user exists and is active
refresh_token_unchecked(table, token) ==
    LET dep == get_refresh_token_user_id(token)
    IN  IF ~dep.ok THEN Error(table, dep.status, dep.detail)
        ELSE Ok(200,
                Token(create_access_token(dep.user_id), create_refresh_token(dep.user_id),
                      ACCESS_TOKEN_EXPIRE_MINUTES * 60),
                table, {create_access_token(dep.user_id), create_refresh_token(dep.user_id)})

refresh_token(table, token) ==
    LET dep == get_refresh_token_user_id(token)
    IN  IF ~dep.ok THEN Error(table, dep.status, dep.detail)
        ELSE LET user == get_user_by_id(table, dep.user_id)
             IN  IF ~Found(user) \/ ~user.is_active
                 THEN Error(table, 401, D_InvalidRefresh)
                 ELSE LET access == create_access_token(dep.user_id)
                          refresh == create_refresh_token(dep.user_id)
                      IN  Ok(200,
                             Token(access, refresh, ACCESS_TOKEN_EXPIRE_MINUTES * 60),
                             table, {access, refresh})

ProfileStats ==
    [total_exams |-> 0, total_questions_answered |-> 0, average_score |-> 0,
     current_streak |-> 0, total_study_time_minutes |-> 0, level |-> 1,
     badges |-> <<>>]

get_current_user(table, token) ==
    LET dep == get_current_user_id(token)
    IN  IF ~dep.ok THEN Error(table, dep.status, dep.detail)
        ELSE LET user == get_user_by_id(table, dep.user_id)
             IN  IF ~Found(user) THEN Error(table, 404, D_UserNotFound)
                 ELSE IF ~ValidUserResponse(user) THEN Error(table, 500, D_Internal)
                 ELSE Ok(200, UserProfile(ProfileStats @@ user), table, {})

update_profile(table, token, update_data) ==
    LET dep == get_current_user_id(token)
    IN  IF ~dep.ok THEN Error(table, dep.status, dep.detail)
        ELSE LET user == get_user_by_id(table, dep.user_id)
             IN  IF ~Found(user) THEN Error(table, 404, D_UserNotFound)
                 ELSE LET u == update_user(table, dep.user_id, update_data)
                      IN  IF u.ok /\ Found(u.row) /\ ValidUserResponse(u.row)
                          THEN Ok(200, UserResponse(u.row), u.table, {})
                          ELSE Error(u.table, 500, D_UpdateFailed)

\* change_password without the verification of current_password
change_password_unverified(table, token, current_password, new_password) ==
    LET dep == get_current_user_id(token)
    IN  IF ~dep.ok THEN Error(table, dep.status, dep.detail)
        ELSE IF ~ValidPasswordChange(current_password, new_password)
        THEN Error(table, 422, D_Validation)
        ELSE LET user == get_user_by_id(table, dep.user_id)
             IN  IF ~Found(user) THEN Error(table, 404, D_UserNotFound)
                 ELSE LET u == update_user(table, dep.user_id,
                                  [hashed_password |->
                                      hash_password(new_password,
                                                    FreshSalt(user.hashed_password.salt))])
                      IN  Ok(200, [message |-> <<"Password", "updated", "successfully">>],
                             u.table, {})

change_password(table, token, current_password, new_password) ==
    LET dep == get_current_user_id(token)
    IN  IF ~dep.ok THEN Error(table, dep.status, dep.detail)
        ELSE IF ~ValidPasswordChange(current_password, new_password)
        THEN Error(table, 422, D_Validation)
        ELSE LET user == get_user_by_id(table, dep.user_id)
             IN  IF ~Found(user) THEN Error(table, 404, D_UserNotFound)
                 ELSE IF ~verify_password(current_password, user.hashed_password)
                 THEN Error(table, 400, D_CurrentIncorrect)
                 ELSE LET u == update_user(table, dep.user_id,
                                  [hashed_password |->
                                      hash_password(new_password,
                                                    FreshSalt(user.hashed_password.salt))])
                      IN  IF u.ok
                          THEN Ok(200, [message |-> <<"Password", "updated", "successfully">>],
                                  u.table, {})
                          ELSE Error(u.table, 500, D_PasswordFailed)

\* a logout that ends the session on the server by writing the user's row
logout_writing(table, token) ==
    LET dep == get_current_user_id(token)
    IN  IF ~dep.ok THEN Error(table, dep.status, dep.detail)
        ELSE Ok(200, [message |-> <<"Logged", "out", "successfully">>],
                update_user(table, dep.user_id, [is_active |-> FALSE]).table, {})

logout(table, token) ==
    LET dep == get_current_user_id(token)
    IN  IF ~dep.ok THEN Error(table, dep.status, dep.detail)
        ELSE Ok(200, [message |-> <<"Logged", "out", "successfully">>], table, {})

verify_token_endpoint(table, token) ==
    LET dep == get_current_user_id(token)
    IN  IF ~dep.ok THEN Error(table, dep.status, dep.detail)
        ELSE Ok(200, [valid |-> TRUE, user_id |-> dep.user_id], table, {})

----------------------------------------------------------------------------
(* app/db/crud.py, QuestionCRUD, and app/schemas/question.py.              *)
(* Subjects, topics, difficulties and question types are compared as whole *)
(* strings; question texts are sequences of characters (their length is    *)
(* validated).                                                             *)

QuestionTextMinLen == 10
NumQuestionsMin == 1
NumQuestionsMax == 50
MAX_QUESTIONS_PER_REQUEST == 50
PageSizeMax == 100

\* Python None where a str is optional
NoneStr == "<None>"
\* `if value:` on an Optional[str]
Truthy(value) == value # NoneStr /\ value # ""

QuestionType == {"mcq", "short", "long"}
Difficulty == {"easy", "medium", "hard"}

T_one == Repeat("a", QuestionTextMinLen)
T_two == Repeat("b", QuestionTextMinLen)
T_new == Repeat("c", QuestionTextMinLen)
T_short == Repeat("c", 2)

get_question_by_id(table, question_id) == SelectOne(table, "id", question_id)

\* create_questions_batch: every dict gets an id and created_at, one insert
create_questions_batch(table, questions_data) ==
    LET rows == [i \in DOMAIN questions_data |->
                    [id |-> Len(table) + i, created_at |-> Stamp, updated_at |-> Stamp]
                    @@ questions_data[i]]
    IN  [table |-> table \o rows, rows |-> rows]

\* a criteria query whose filters are not applied
get_questions_unfiltered(table, subject, topic, difficulty, question_type, limit, offset) ==
    SubSeq(table, offset + 1, Min(Len(table), offset + limit))

\* get_questions_by_criteria: an eq filter for every truthy argument, then
\* range(offset, offset + limit - 1), both ends included
get_questions_by_criteria(table, subject, topic, difficulty, question_type, limit, offset) ==
    LET match(q) ==
            /\ Truthy(subject) => q.subject = subject
            /\ Truthy(topic) => q.topic = topic
            /\ Truthy(difficulty) => q.difficulty = difficulty
            /\ Truthy(question_type) => q.question_type = question_type
        hits == SelectSeq(table, match)
    IN  SubSeq(hits, offset + 1, Min(Len(hits), offset + limit))

\* QuestionCRUD.update_question: stamps updated_at, updates the row with that id
update_question_row(table, question_id, update_data) ==
    LET data == [f \in (DOMAIN update_data) \cup {"updated_at"} |->
                    IF f = "updated_at" THEN Stamp ELSE update_data[f]]
        hit == Rows(table, "id", question_id)
    IN  IF hit = {} THEN [table |-> table, row |-> NoRow]
        ELSE LET i == First(hit)
             IN  [table |-> [table EXCEPT ![i] = Patch(table[i], data)],
                  row |-> Patch(table[i], data)]

QuestionResponseFields ==
    {"question_text", "question_type", "subject", "topic", "difficulty",
     "explanation", "points", "tags", "id", "options", "correct_answer",
     "created_by", "created_at", "updated_at"}

QuestionResponse(q) == Project(QuestionResponseFields, q)

\* QuestionCreate built by _parse_questions_response, as question.dict()
QuestionCreate(question_text, question_type, subject, topic, difficulty) ==
    [question_text |-> question_text, question_type |-> question_type,
     subject |-> subject, topic |-> topic, difficulty |-> difficulty, points |-> 1]

\* QuestionGenerationRequest
ValidQuestionGenerationRequest(request) ==
    /\ request.subject # ""
    /\ request.topic # ""
    /\ request.difficulty \in Difficulty
    /\ request.question_type \in QuestionType
    /\ request.num_questions >= NumQuestionsMin
    /\ request.num_questions <= NumQuestionsMax

\* QuestionUpdate
ValidQuestionUpdate(update_data) ==
    /\ DOMAIN update_data \subseteq
          {"question_text", "explanation", "points", "tags", "options", "correct_answer"}
    /\ "question_text" \in DOMAIN update_data =>
          Len(update_data.question_text) >= QuestionTextMinLen
    /\ "points" \in DOMAIN update_data =>
          (update_data.points >= 1 /\ update_data.points <= 10)

\* page: ge=1; page_size: ge=1, le=100
ValidPaging(page, page_size) ==
    /\ page >= 1
    /\ page_size >= 1
    /\ page_size <= PageSizeMax

----------------------------------------------------------------------------
(* app/services/gemini_service.py: the reply of the model is an input.     *)
(* A reply is [kind, questions]: "json" is text that json.loads accepts,   *)
(* with the question texts of its "questions" list; "text" is a reply that *)
(* is no JSON; "error" is a call to the API that raises.                   *)

JsonReply(texts) == [kind |-> "json", questions |-> texts]
TextReply == [kind |-> "text", questions |-> <<>>]
ErrorReply == [kind |-> "error", questions |-> <<>>]

\* the replies the model gives to a generation prompt
LlmReplies == {JsonReply(<<T_one>>), JsonReply(<<T_one, T_two>>), TextReply, ErrorReply}

\* _parse_questions_response: one QuestionCreate for every entry of the reply
parse_questions_response(response, subject, topic, difficulty, question_type) ==
    IF response.kind # "json" THEN [ok |-> FALSE, questions |-> <<>>]
    ELSE [ok |-> TRUE,
          questions |-> [i \in DOMAIN response.questions |->
                            QuestionCreate(response.questions[i], question_type,
                                           subject, topic, difficulty)]]

\* GeminiService.generate_questions: one call, then the parse; any exception
\* is raised again as "Question generation failed"
gemini_generate_questions(request, response) ==
    IF response.kind = "error" THEN [ok |-> FALSE, questions |-> <<>>]
    ELSE parse_questions_response(response, request.subject, request.topic,
                                  request.difficulty, request.question_type)

----------------------------------------------------------------------------
(* app/api/questions.py: a handler is the outcome of one request against a *)
(* questions table: [status, body, table (the table afterwards), llm (the  *)
(* calls made to the model)].                                              *)

D_QuestionNotFound == <<"Question", "not", "found">>
D_NotAuthorizedUpdate == <<"Not", "authorized", "to", "update", "this", "question">>
D_NotAuthorizedDelete == <<"Not", "authorized", "to", "delete", "this", "question">>
D_MaximumQuestions == <<"Maximum", "questions", "allowed", "per", "request">>
D_GenerateFailed == <<"Failed", "to", "generate", "questions">>
D_QuestionUpdateFailed == <<"Failed", "to", "update", "question">>

QError(table, status, detail, llm) ==
    [status |-> status, body |-> [detail |-> detail], table |-> table, llm |-> llm]

QOk(status, body, table, llm) ==
    [status |-> status, body |-> body, table |-> table, llm |-> llm]

generate_questions(table, token, request, response) ==
    LET dep == get_current_user_id(token)
    IN  IF ~dep.ok THEN QError(table, dep.status, dep.detail, 0)
        ELSE IF ~ValidQuestionGenerationRequest(request)
        THEN QError(table, 422, D_Validation, 0)
        ELSE IF request.num_questions > MAX_QUESTIONS_PER_REQUEST
        THEN QError(table, 400, D_MaximumQuestions, 0)
        ELSE LET generated == gemini_generate_questions(request, response)
             IN  IF ~generated.ok THEN QError(table, 500, D_GenerateFailed, 1)
                 ELSE LET stored == create_questions_batch(table,
                                        [i \in DOMAIN generated.questions |->
                                            generated.questions[i]
                                            @@ [created_by |-> dep.user_id]])
                      IN  QOk(200,
                              [questions |-> [i \in DOMAIN stored.rows |->
                                                 QuestionResponse(stored.rows[i])],
                               total_generated |-> Len(stored.rows)],
                              stored.table, 1)

get_question(table, token, question_id) ==
    LET dep == get_current_user_id(token)
    IN  IF ~dep.ok THEN QError(table, dep.status, dep.detail, 0)
        ELSE LET question == get_question_by_id(table, question_id)
             IN  IF ~Found(question) THEN QError(table, 404, D_QuestionNotFound, 0)
                 ELSE QOk(200, QuestionResponse(question), table, 0)

\* update_question without the check of created_by
update_question_any_caller(table, token, question_id, update_data) ==
    LET dep == get_current_user_id(token)
    IN  IF ~dep.ok THEN QError(table, dep.status, dep.detail, 0)
        ELSE IF ~ValidQuestionUpdate(update_data)
        THEN QError(table, 422, D_Validation, 0)
        ELSE LET existing_question == get_question_by_id(table, question_id)
             IN  IF ~Found(existing_question)
                 THEN QError(table, 404, D_QuestionNotFound, 0)
                 ELSE LET u == update_question_row(table, question_id, update_data)
                      IN  QOk(200, QuestionResponse(u.row), u.table, 0)

update_question(table, token, question_id, update_data) ==
    LET dep == get_current_user_id(token)
    IN  IF ~dep.ok THEN QError(table, dep.status, dep.detail, 0)
        ELSE IF ~ValidQuestionUpdate(update_data)
        THEN QError(table, 422, D_Validation, 0)
        ELSE LET existing_question == get_question_by_id(table, question_id)
             IN  IF ~Found(existing_question)
                 THEN QError(table, 404, D_QuestionNotFound, 0)
                 ELSE IF existing_question.created_by # dep.user_id
                 THEN QError(table, 403, D_NotAuthorizedUpdate, 0)
                 ELSE LET u == update_question_row(table, question_id, update_data)
                      IN  IF Found(u.row)
                          THEN QOk(200, QuestionResponse(u.row), u.table, 0)
                          ELSE QError(u.table, 500, D_QuestionUpdateFailed, 0)

\* delete_question: the delete itself is not implemented ("TODO: Implement
\* delete in CRUD"); the handler checks, then answers
delete_question(table, token, question_id) ==
    LET dep == get_current_user_id(token)
    IN  IF ~dep.ok THEN QError(table, dep.status, dep.detail, 0)
        ELSE LET existing_question == get_question_by_id(table, question_id)
             IN  IF ~Found(existing_question)
                 THEN QError(table, 404, D_QuestionNotFound, 0)
                 ELSE IF existing_question.created_by # dep.user_id
                 THEN QError(table, 403, D_NotAuthorizedDelete, 0)
                 ELSE QOk(200, [message |-> <<"Question", "deleted", "successfully">>],
                          table, 0)

\* the body of search_questions and of list_questions for the rows found
SearchResponse(found, page, page_size) ==
    LET offset == (page - 1) * page_size
        total_count == Len(found) + offset
    IN  [questions |-> [i \in DOMAIN found |-> QuestionResponse(found[i])],
         total_count |-> total_count,
         page |-> page,
         page_size |-> page_size,
         total_pages |-> (total_count + page_size - 1) \div page_size]

\* list_questions: the filters are query strings, any value is taken
list_questions(table, token, subject, topic, difficulty, question_type, page, page_size) ==
    LET dep == get_current_user_id(token)
    IN  IF ~dep.ok THEN QError(table, dep.status, dep.detail, 0)
        ELSE IF ~ValidPaging(page, page_size) THEN QError(table, 422, D_Validation, 0)
        ELSE QOk(200,
                 SearchResponse(
                     get_questions_by_criteria(table, subject, topic, difficulty,
                                               question_type, page_size,
                                               (page - 1) * page_size),
                     page, page_size),
                 table, 0)

\* search_questions: difficulty and question_type are enum members or None
search_questions(table, token, subject, topic, difficulty, question_type, page, page_size) ==
    LET dep == get_current_user_id(token)
    IN  IF ~dep.ok THEN QError(table, dep.status, dep.detail, 0)
        ELSE IF \/ ~ValidPaging(page, page_size)
                \/ difficulty \notin Difficulty \cup {NoneStr}
                \/ question_type \notin QuestionType \cup {NoneStr}
        THEN QError(table, 422, D_Validation, 0)
        ELSE QOk(200,
                 SearchResponse(
                     get_questions_by_criteria(table, subject, topic, difficulty,
                                               question_type, page_size,
                                               (page - 1) * page_size),
                     page, page_size),
                 table, 0)

----------------------------------------------------------------------------
(* main.py, the "ultra simple" app: chat, and exams kept in memory.        *)
(* A reply of the AI is a sequence of symbols: "{" and "}" are the braces   *)
(* that str.find and str.rfind look for, "q" is one well-formed entry of a  *)
(* "questions" list, "e" is such an entry whose "correct_answer" is the     *)
(* empty string, "k" is well-formed JSON content that is no such entry,     *)
(* "t" is text that is no JSON.                                             *)

\* str.find / str.rfind: the 0-based index of the first / last c, or -1
Find(s, c) ==
    IF HasChar(s, c) THEN (CHOOSE i \in DOMAIN s : s[i] = c /\ \A j \in 1..(i - 1) : s[j] # c) - 1
    ELSE 0 - 1

RFind(s, c) ==
    IF HasChar(s, c) THEN (CHOOSE i \in DOMAIN s : s[i] = c /\ \A j \in (i + 1)..Len(s) : s[j] # c) - 1
    ELSE 0 - 1

\* s[start:end] for 0 <= start
Slice(s, start, end) == SubSeq(s, start + 1, Min(end, Len(s)))

\* str.strip() on the alphabet the model uses
RECURSIVE LStrip(_)
LStrip(s) == IF s # <<>> /\ Head(s) = " " THEN LStrip(Tail(s)) ELSE s

RECURSIVE RStrip(_)
RStrip(s) == IF s # <<>> /\ s[Len(s)] = " " THEN RStrip(SubSeq(s, 1, Len(s) - 1)) ELSE s

Strip(s) == RStrip(LStrip(s))

\* str.upper() on the alphabet the model uses
Upper(s) == [i \in DOMAIN s |-> IF s[i] = "a" THEN "A" ELSE IF s[i] = "b" THEN "B" ELSE s[i]]

\* a symbol is an entry of a "questions" list
IsEntry(c) == c \in {"q", "e"}

\* json.loads of an exam reply: [ok, has_questions, n, entries]; the text is
\* JSON when it is one object of well-formed content
json_loads(text) ==
    IF /\ Len(text) >= 2
       /\ text[1] = "{"
       /\ text[Len(text)] = "}"
       /\ \A i \in 2..(Len(text) - 1) : text[i] \in {"q", "e", "k"}
    THEN [ok |-> TRUE,
          has_questions |-> HasChar(text, "q") \/ HasChar(text, "e"),
          n |-> CountChar(text, "q") + CountChar(text, "e"),
          entries |-> SelectSeq(text, IsEntry)]
    ELSE [ok |-> FALSE, has_questions |-> FALSE, n |-> 0, entries |-> <<>>]

\* "q1", "q2", ...
QId(i) == <<"q", i>>

Letters == <<"A", "B", "C", "D">>

\* the i-th question (i from 0) of the placeholder MCQ exam
FallbackMCQ(i, subject) ==
    [id |-> QId(i + 1),
     question |-> <<"Sample", subject, "question", i + 1>>,
     options |-> [o \in 1..4 |-> [id |-> Letters[o], text |-> <<"Option", Letters[o]>>,
                                  is_correct |-> (i = o - 1)]],
     correct_answer |-> <<Letters[(i % 4) + 1]>>,
     explanation |-> <<"Explanation", "for", "question", i + 1>>]

\* the i-th question (i from 0) of the placeholder written exam
FallbackWritten(i, subject, num_questions) ==
    [id |-> QId(i + 1),
     question |-> <<"Sample", subject, "essay", "question", i + 1>>,
     max_points |-> 100 \div num_questions,
     sample_answer |-> <<"Sample", "answer", "for", "question", i + 1>>]

\* range(n): empty for n <= 0
Range(n) == IF n > 0 THEN 0..(n - 1) ELSE {}

\* the i-th question of an exam the AI wrote, of the type of the prompt; the
\* entry tells whether its correct_answer is empty
AIQuestion(i, exam_type, entry) ==
    IF exam_type = "mcq"
    THEN [id |-> QId(i), question |-> <<"AI", "question", i>>,
          options |-> [o \in 1..4 |-> [id |-> Letters[o], text |-> <<"Option", Letters[o]>>,
                                       is_correct |-> (o = 2)]],
          correct_answer |-> IF entry = "e" THEN <<>> ELSE <<"B">>,
          explanation |-> <<"AI", "explanation">>]
    ELSE [id |-> QId(i), question |-> <<"AI", "question", i>>,
          max_points |-> 20,
          sample_answer |-> <<"AI", "answer">>]

\* datetime.now(): the naive local time of the server
LocalNow == now + tz

\* ExamStorage.create_exam: exam_id, created_at and status are set on the record
create_exam(store, exam_data) ==
    LET exam_id == Len(store) + 1
        record == [exam_id |-> exam_id, created_at |-> LocalNow, status |-> "in_progress"]
                  @@ exam_data
    IN  [exam_id |-> exam_id, store |-> Append(store, record)]

\* an exam_id that no exam has
UnknownExamId == 0

\* exams.get(exam_id) when there is no such exam
NoExam == [exam_id |-> UnknownExamId]

\* ExamStorage.get_exam
get_exam_record(store, exam_id) ==
    IF exam_id \in DOMAIN store THEN store[exam_id] ELSE NoExam

\* create_exam, lines 81-84, with the new id at the front of the user's list
index_exam_at_front(index, user_id, exam_id) ==
    IF user_id \in DOMAIN index
    THEN [index EXCEPT ![user_id] = <<exam_id>> \o @]
    ELSE (user_id :> <<exam_id>>) @@ index

\* create_exam, lines 81-84: the id of the new exam is appended to the list
\* of its user in user_exams
index_exam(index, user_id, exam_id) ==
    IF user_id \in DOMAIN index
    THEN [index EXCEPT ![user_id] = Append(@, exam_id)]
    ELSE (user_id :> <<exam_id>>) @@ index

\* ExamStorage.get_user_exams
storage_get_user_exams(store, index, user_id) ==
    LET exam_ids == IF user_id \in DOMAIN index THEN index[user_id] ELSE <<>>
        kept == SelectSeq(exam_ids, LAMBDA exam_id : exam_id \in DOMAIN store)
    IN  [i \in DOMAIN kept |-> store[kept[i]]]

\* update_exam that leaves the status as it is
update_exam_keeping_status(store, exam_id, updates) ==
    IF exam_id \in DOMAIN store
    THEN [store EXCEPT ![exam_id] =
              [f \in (DOMAIN store[exam_id]) \cup (DOMAIN updates) \cup {"updated_at"} |->
                  IF f = "updated_at" THEN LocalNow
                  ELSE IF f \in DOMAIN updates /\ f # "status" THEN updates[f]
                  ELSE store[exam_id][f]]]
    ELSE store

\* ExamStorage.update_exam: dict.update, then updated_at
update_exam(store, exam_id, updates) ==
    IF exam_id \in DOMAIN store
    THEN [store EXCEPT ![exam_id] =
              [f \in (DOMAIN store[exam_id]) \cup (DOMAIN updates) \cup {"updated_at"} |->
                  IF f = "updated_at" THEN LocalNow
                  ELSE IF f \in DOMAIN updates THEN updates[f]
                  ELSE store[exam_id][f]]]
    ELSE store

\* an HTTPException raised inside `try:` and caught by `except Exception`:
\* it is raised again as a 500 whose detail quotes it
ExceptException(prefix, e) ==
    [status |-> 500, detail |-> prefix \o e.detail]

D_MessageEmpty == <<"Message", "cannot", "be", "empty">>
D_ChatFailed == <<"Chat", "processing", "failed:">>
D_ExamType == <<"exam_type", "must", "be", "'mcq'", "or", "'written'">>
D_ExamFailed == <<"Exam", "generation", "failed:">>
D_KeyError == <<"'questions'">>
D_ExamNotFound == <<"Exam", "not", "found">>
D_NotAuthorizedSubmit == <<"Not", "authorized", "to", "submit", "this", "exam">>
D_AlreadySubmitted == <<"Exam", "already", "submitted">>
D_SubmitFailed == <<"Failed", "to", "submit", "exam:">>

\* an outcome of a handler of main.py: [status, body, store, llm]
MError(store, e, llm) ==
    [status |-> e.status, body |-> [detail |-> e.detail], store |-> store, llm |-> llm]

MOk(body, store, llm) ==
    [status |-> 200, body |-> body, store |-> store, llm |-> llm]

HTTPException(status, detail) == [status |-> status, detail |-> detail]

\* chat: the 400 is raised inside the try block, whose `except Exception`
\* catches HTTPExceptions as well
chat(message, ai_response) ==
    IF Strip(message) = <<>>
    THEN LET e == ExceptException(D_ChatFailed, HTTPException(400, D_MessageEmpty))
         IN  [status |-> e.status, body |-> [detail |-> e.detail], llm |-> 0]
    ELSE [status |-> 200, body |-> [response |-> ai_response, success |-> TRUE], llm |-> 1]

\* the questions generate_exam takes from the reply: [kind, questions], kind
\* "parsed", "fallback" (no JSON, or text that json.loads refuses) or
\* "keyerror" (JSON without "questions")
ExamQuestions(request, ai_response) ==
    LET start_idx == Find(ai_response, "{")
        end_idx == RFind(ai_response, "}") + 1
        parsed == IF start_idx # 0 - 1 /\ end_idx # 0 - 1
                  THEN json_loads(Slice(ai_response, start_idx, end_idx))
                  ELSE [ok |-> FALSE, has_questions |-> FALSE, n |-> 0, entries |-> <<>>]
    IN  IF parsed.ok
        THEN IF parsed.has_questions
             THEN [kind |-> "parsed",
                   questions |-> [i \in 1..parsed.n |->
                                     AIQuestion(i, request.exam_type, parsed.entries[i])]]
             ELSE [kind |-> "keyerror", questions |-> <<>>]
        ELSE [kind |-> "fallback",
              questions |->
                  [i \in 1..Cardinality(Range(request.num_questions)) |->
                      IF request.exam_type = "mcq"
                      THEN FallbackMCQ(i - 1, request.subject)
                      ELSE FallbackWritten(i - 1, request.subject, request.num_questions)]]

RECURSIVE SumPoints(_)
SumPoints(qs) ==
    IF qs = <<>> THEN 0
    ELSE (IF "max_points" \in DOMAIN Head(qs) THEN Head(qs).max_points ELSE 10)
         + SumPoints(Tail(qs))

\* generate_exam: one call to the AI, the parse or the placeholder, the store
generate_exam(store, request, ai_response) ==
    IF request.exam_type \notin {"mcq", "written"}
    THEN MError(store, ExceptException(D_ExamFailed, HTTPException(400, D_ExamType)), 0)
    ELSE LET exam_data == ExamQuestions(request, ai_response)
         IN  IF exam_data.kind = "keyerror"
             THEN MError(store, ExceptException(D_ExamFailed, HTTPException(500, D_KeyError)), 1)
             ELSE LET max_score == IF request.exam_type = "mcq"
                                   THEN Len(exam_data.questions)
                                   ELSE SumPoints(exam_data.questions)
                      exam_record ==
                          [user_id |-> request.user_id,
                           chat_id |-> request.chat_id,
                           title |-> request.title,
                           subject |-> request.subject,
                           exam_type |-> request.exam_type,
                           exam_data |-> [questions |-> exam_data.questions,
                                          user_answers |-> <<>>,
                                          results |-> <<>>],
                           max_score |-> max_score,
                           status |-> "in_progress"]
                      created == create_exam(store, exam_record)
                  IN  MOk([exam_id |-> created.exam_id,
                           title |-> request.title,
                           subject |-> request.subject,
                           exam_type |-> request.exam_type,
                           questions |-> exam_data.questions,
                           total_questions |-> Len(exam_data.questions),
                           max_score |-> max_score,
                           success |-> TRUE],
                          created.store, 1)

\* get_exam: the stored record, or 404
get_exam(store, exam_id) ==
    LET exam == get_exam_record(store, exam_id)
    IN  IF exam = NoExam
        THEN MError(store, HTTPException(404, D_ExamNotFound), 0)
        ELSE MOk([exam |-> exam, success |-> TRUE], store, 0)

\* exam_summary of get_user_exams, lines 362-377
ExamSummary(exam) ==
    [exam_id |-> exam.exam_id, title |-> exam.title, subject |-> exam.subject,
     exam_type |-> exam.exam_type, status |-> exam.status,
     created_at |-> exam.created_at,
     updated_at |-> IF "updated_at" \in DOMAIN exam THEN exam.updated_at ELSE exam.created_at,
     total_questions |-> Len(exam.exam_data.questions),
     max_score |-> exam.max_score]
    @@ (IF exam.status = "completed" /\ "results" \in DOMAIN exam.exam_data
        THEN [score |-> exam.exam_data.results.score,
              percentage |-> exam.exam_data.results.percentage]
        ELSE <<>>)

\* get_user_exams: the summaries of the exams of the user's list
get_user_exams(store, index, user_id) ==
    LET user_exam_list == storage_get_user_exams(store, index, user_id)
    IN  MOk([exams |-> [i \in DOMAIN user_exam_list |-> ExamSummary(user_exam_list[i])],
             success |-> TRUE], store, 0)

\* every entry of the answers has the two keys the answer lookup reads
HasAnswerKeys(answers) ==
    \A i \in DOMAIN answers : {"question_id", "answer"} \subseteq DOMAIN answers[i]

\* answer_map.get(question_id, ""): a later entry replaces an earlier one
AnswerMapGet(answers, question_id) ==
    LET at == {i \in DOMAIN answers : answers[i].question_id = question_id}
    IN  IF at = {} THEN <<>>
        ELSE answers[CHOOSE i \in at : \A j \in at : j <= i].answer

Max(a, b) == IF a > b THEN a ELSE b

\* round(a / b) for a >= 0, b > 0
RoundDiv(a, b) == (2 * a + b) \div (2 * b)

RECURSIVE SumScores(_)
SumScores(results) ==
    IF results = <<>> THEN 0 ELSE Head(results).score + SumScores(Tail(results))

\* grade_mcq_exam; percentage in hundredths of a percent (round(x, 2))
grade_mcq_exam(exam, answers) ==
    LET exam_questions == exam.exam_data.questions
        total_questions == Len(exam_questions)
        question_results ==
            [i \in DOMAIN exam_questions |->
                LET user_answer == AnswerMapGet(answers, exam_questions[i].id)
                    correct_answer == exam_questions[i].correct_answer
                    is_correct == (Upper(user_answer) = Upper(correct_answer))
                IN  [question_id |-> exam_questions[i].id,
                     question |-> exam_questions[i].question,
                     user_answer |-> user_answer,
                     correct_answer |-> correct_answer,
                     is_correct |-> is_correct,
                     explanation |-> IF "explanation" \in DOMAIN exam_questions[i]
                                     THEN exam_questions[i].explanation ELSE <<>>]]
        score == Cardinality({i \in DOMAIN question_results : question_results[i].is_correct})
    IN  [score |-> score,
         max_score |-> total_questions,
         percentage |-> IF total_questions > 0 THEN RoundDiv(score * 10000, total_questions) ELSE 0,
         question_results |-> question_results,
         exam_type |-> "mcq"]

\* a reply of the AI to a grading prompt: its text, and the "score" it holds
\* when the text is JSON
GradingReply(text, score) == [text |-> text, score |-> score]

\* the reply of the AI parses as JSON
GradingParses(reply) ==
    LET start_idx == Find(reply.text, "{")
    IN  /\ start_idx >= 0
        /\ json_loads(Slice(reply.text, start_idx, RFind(reply.text, "}") + 1)).ok

\* values of the locals `strengths` and `improvements` (key) of
\* grade_written_exam: what the reply to the prompt of question i holds under
\* the key, the text of the fallback grading, and no such local yet
AIRemark(key, i) == <<"ai", key, i>>
FallbackRemark(key) == <<"fallback", key>>
NotInLocals == <<"not in locals">>

\* the local `strengths` or `improvements` once the loop has passed question
\* i: both gradings of an answered question assign it, a question with no
\* answer leaves it as it was
RECURSIVE Local(_, _, _, _, _)
Local(exam_questions, answers, replies, i, key) ==
    IF i = 0 THEN NotInLocals
    ELSE IF Strip(AnswerMapGet(answers, exam_questions[i].id)) = <<>>
    THEN Local(exam_questions, answers, replies, i - 1, key)
    ELSE IF GradingParses(replies[((i - 1) % Len(replies)) + 1])
    THEN AIRemark(key, i)
    ELSE FallbackRemark(key)

\* `x if 'x' in locals() else ""`
IfInLocals(value) == IF value = NotInLocals THEN <<>> ELSE value

\* WrittenScore that takes the score of the AI as it is
WrittenScore_unclamped(user_answer, max_points, reply) ==
    IF Strip(user_answer) = <<>> THEN 0
    ELSE LET start_idx == Find(reply.text, "{")
             end_idx == RFind(reply.text, "}") + 1
             parsed == IF start_idx # 0 - 1 /\ end_idx # 0 - 1
                       THEN json_loads(Slice(reply.text, start_idx, end_idx))
                       ELSE [ok |-> FALSE, has_questions |-> FALSE, n |-> 0, entries |-> <<>>]
             answer_length == Len(Strip(user_answer))
         IN  IF parsed.ok
             THEN 10 * reply.score
             ELSE IF answer_length >= 100 THEN max_points * 8
             ELSE IF answer_length >= 50 THEN max_points * 6
             ELSE IF answer_length >= 20 THEN max_points * 4
             ELSE max_points * 2

\* the score of one written answer, in tenths of a point: the AI's score
\* clamped to 0..max_points, or the length-based fallback
WrittenScore(user_answer, max_points, reply) ==
    IF Strip(user_answer) = <<>> THEN 0
    ELSE LET start_idx == Find(reply.text, "{")
             end_idx == RFind(reply.text, "}") + 1
             parsed == IF start_idx # 0 - 1 /\ end_idx # 0 - 1
                       THEN json_loads(Slice(reply.text, start_idx, end_idx))
                       ELSE [ok |-> FALSE, has_questions |-> FALSE, n |-> 0, entries |-> <<>>]
             answer_length == Len(Strip(user_answer))
         IN  IF parsed.ok
             THEN 10 * Min(Max(reply.score, 0), max_points)
             ELSE IF answer_length >= 100 THEN max_points * 8
             ELSE IF answer_length >= 50 THEN max_points * 6
             ELSE IF answer_length >= 20 THEN max_points * 4
             ELSE max_points * 2

\* grade_written_exam; replies[i] answers the grading prompt of question i;
\* score in tenths of a point, percentage in hundredths of a percent
grade_written_exam(exam, answers, replies) ==
    LET exam_questions == exam.exam_data.questions
        max_score == SumPoints(exam_questions)
        question_results ==
            [i \in DOMAIN exam_questions |->
                LET user_answer == AnswerMapGet(answers, exam_questions[i].id)
                    max_points == IF "max_points" \in DOMAIN exam_questions[i]
                                  THEN exam_questions[i].max_points ELSE 10
                IN  [question_id |-> exam_questions[i].id,
                     user_answer |-> user_answer,
                     score |-> WrittenScore(user_answer, max_points,
                                            replies[((i - 1) % Len(replies)) + 1]),
                     max_points |-> max_points,
                     strengths |-> IfInLocals(Local(exam_questions, answers, replies,
                                                    i, "strengths")),
                     improvements |-> IfInLocals(Local(exam_questions, answers, replies,
                                                       i, "improvements"))]]
        total_score == SumScores(question_results)
    IN  [score |-> total_score,
         max_score |-> max_score,
         percentage |-> IF max_score > 0 THEN RoundDiv(total_score * 1000, max_score) ELSE 0,
         question_results |-> question_results,
         exam_type |-> "written"]

\* the calls grade_written_exam makes to the AI: one per answered question
GradingCalls(exam, answers) ==
    IF exam.exam_type = "mcq" THEN 0
    ELSE Cardinality({i \in DOMAIN exam.exam_data.questions :
                         Strip(AnswerMapGet(answers, exam.exam_data.questions[i].id)) # <<>>})

\* submit_exam that stamps the exam it refuses as already submitted
submit_exam_touching(store, request, replies) ==
    LET exam == get_exam_record(store, request.exam_id)
    IN  IF exam = NoExam
        THEN MError(store, HTTPException(404, D_ExamNotFound), 0)
        ELSE IF exam.user_id # request.user_id
        THEN MError(store, HTTPException(403, D_NotAuthorizedSubmit), 0)
        ELSE IF exam.status = "completed"
        THEN MError(update_exam(store, request.exam_id, [status |-> "completed"]),
                    HTTPException(400, D_AlreadySubmitted), 0)
        ELSE IF ~HasAnswerKeys(request.answers)
        THEN MError(store, HTTPException(500, D_SubmitFailed \o D_KeyError), 0)
        ELSE LET results == IF exam.exam_type = "mcq"
                            THEN grade_mcq_exam(exam, request.answers)
                            ELSE grade_written_exam(exam, request.answers, replies)
                 exam_updates ==
                     [status |-> "completed",
                      exam_data |-> [questions |-> exam.exam_data.questions,
                                     user_answers |-> request.answers,
                                     results |-> results]]
             IN  MOk([exam_id |-> request.exam_id,
                      score |-> results.score,
                      max_score |-> results.max_score,
                      percentage |-> results.percentage,
                      results |-> results,
                      success |-> TRUE],
                     update_exam(store, request.exam_id, exam_updates),
                     GradingCalls(exam, request.answers))

\* submit_exam without the check of the status
submit_exam_regrading(store, request, replies) ==
    LET exam == get_exam_record(store, request.exam_id)
    IN  IF exam = NoExam
        THEN MError(store, HTTPException(404, D_ExamNotFound), 0)
        ELSE IF exam.user_id # request.user_id
        THEN MError(store, HTTPException(403, D_NotAuthorizedSubmit), 0)
        ELSE IF ~HasAnswerKeys(request.answers)
        THEN MError(store, HTTPException(500, D_SubmitFailed \o D_KeyError), 0)
        ELSE LET results == IF exam.exam_type = "mcq"
                            THEN grade_mcq_exam(exam, request.answers)
                            ELSE grade_written_exam(exam, request.answers, replies)
                 exam_updates ==
                     [status |-> "completed",
                      exam_data |-> [questions |-> exam.exam_data.questions,
                                     user_answers |-> request.answers,
                                     results |-> results]]
             IN  MOk([exam_id |-> request.exam_id,
                      score |-> results.score,
                      max_score |-> results.max_score,
                      percentage |-> results.percentage,
                      results |-> results,
                      success |-> TRUE],
                     update_exam(store, request.exam_id, exam_updates),
                     GradingCalls(exam, request.answers))

\* submit_exam: 404, 403, 400 for a completed exam, else the grading and the
\* update of the stored exam; HTTPExceptions pass, anything else is a 500
submit_exam(store, request, replies) ==
    LET exam == get_exam_record(store, request.exam_id)
    IN  IF exam = NoExam
        THEN MError(store, HTTPException(404, D_ExamNotFound), 0)
        ELSE IF exam.user_id # request.user_id
        THEN MError(store, HTTPException(403, D_NotAuthorizedSubmit), 0)
        ELSE IF exam.status = "completed"
        THEN MError(store, HTTPException(400, D_AlreadySubmitted), 0)
        ELSE IF ~HasAnswerKeys(request.answers)
        THEN MError(store, HTTPException(500, D_SubmitFailed \o D_KeyError), 0)
        ELSE LET results == IF exam.exam_type = "mcq"
                            THEN grade_mcq_exam(exam, request.answers)
                            ELSE grade_written_exam(exam, request.answers, replies)
                 exam_updates ==
                     [status |-> "completed",
                      exam_data |-> [questions |-> exam.exam_data.questions,
                                     user_answers |-> request.answers,
                                     results |-> results]]
             IN  MOk([exam_id |-> request.exam_id,
                      score |-> results.score,
                      max_score |-> results.max_score,
                      percentage |-> results.percentage,
                      results |-> results,
                      success |-> TRUE],
                     update_exam(store, request.exam_id, exam_updates),
                     GradingCalls(exam, request.answers))

----------------------------------------------------------------------------
(* The state machine: clients send requests, the clock advances.           *)

N_one == <<"N", "1">>
N_two == <<"N", "2">>

\* bearer strings a client can send: every token handed out so far, or junk
Presentable == issued \cup {Garbage}

Detail(r) == IF "detail" \in DOMAIN r.body THEN r.body.detail ELSE D_None

\* the server answers a request: the table is written, the tokens reach the client
Respond(op, r) ==
    /\ Cardinality(issued \cup r.tokens) <= 2 * MaxTokenPairs
    /\ users' = r.table
    /\ issued' = issued \cup r.tokens
    /\ resp' = [op |-> op, status |-> r.status, detail |-> Detail(r)]
    /\ nupdates' = IF op = "update_profile" /\ r.status = 200
                   THEN nupdates + 1 ELSE nupdates
    /\ nupdates' <= MaxProfileUpdates
    /\ UNCHANGED <<now, tz>>
    /\ UNCHANGED otherVars

Init ==
    /\ users = <<>>
    /\ issued = {}
    /\ now = 0
    /\ tz \in TzOffsets
    /\ resp = [op |-> "none", status |-> 0, detail |-> D_None]
    /\ nupdates = 0
    /\ questions = <<>>
    /\ exams = <<>>
    /\ user_exams = <<>>
    /\ pending = {}
    /\ done = <<>>
    /\ supabase = [answers |-> <<>>, results |-> <<>>, progress |-> <<>>]
    /\ evaluating = {}
    /\ evaluated = <<>>
    /\ signing = {}
    /\ signed = <<>>

Tick ==
    /\ now < MaxTime
    /\ now' = now + 1
    /\ UNCHANGED <<users, issued, tz, resp, nupdates>>
    /\ UNCHANGED otherVars

Signup(E, U, P) ==
    /\ \E e \in E, u \in U, p \in P :
          Respond("signup", signup(users, e, u, p, N_one))

Login(I, P) ==
    /\ \E i \in I, p \in P :
          Respond("login", login(users, i, p))

RefreshToken ==
    \E t \in Presentable :
        Respond("refresh", refresh_token(users, t))

GetCurrentUser ==
    \E t \in Presentable :
        Respond("me", get_current_user(users, t))

UpdateProfile(B) ==
    \E t \in Presentable, d \in B :
        Respond("update_profile", update_profile(users, t, d))

ChangePassword(C, N) ==
    \E t \in Presentable, c \in C, n \in N :
        Respond("change_password", change_password(users, t, c, n))

Logout ==
    \E t \in Presentable :
        Respond("logout", logout(users, t))

VerifyToken ==
    \E t \in Presentable :
        Respond("verify_token", verify_token_endpoint(users, t))

\* bodies sent to PUT /auth/me (update_data: dict takes any JSON object)
UpdateBodies ==
    {[full_name |-> N_two],
     [is_active |-> FALSE],
     [hashed_password |-> hash_password(P_other, FirstSalt)]}

\* bodies that take the user of a token away: deactivated, or moved to another id
TokenUpdateBodies ==
    {[is_active |-> FALSE],
     [id |-> 7]}

Next ==
    \/ Signup(EmailInputs, UsernameInputs, SignupPasswords)
    \/ Login(IdentInputs, PasswordInputs)
    \/ RefreshToken
    \/ GetCurrentUser
    \/ UpdateProfile(UpdateBodies)
    \/ ChangePassword(PasswordInputs, NewPasswords)
    \/ Logout
    \/ VerifyToken

\* the account world: every request arrives within one tick of a server on UTC
InitUtc == Init /\ tz = 0

Spec == InitUtc /\ [][Next]_vars

\* identifiers and passwords sent to login in the token world
TokenIdents == {S_mailA, S_bob}
TokenPasswords == {P_one, P_other}

NextTokens ==
    \/ Tick
    \/ Signup({S_mailA}, {S_bob}, {P_one})
    \/ Login(TokenIdents, TokenPasswords)
    \/ RefreshToken
    \/ GetCurrentUser
    \/ UpdateProfile(TokenUpdateBodies)
    \/ Logout
    \/ VerifyToken

SpecTokens == Init /\ [][NextTokens]_vars

----------------------------------------------------------------------------
(* The questions world: two users, the questions router.                   *)

\* rows the questions table holds at most
MaxQuestions == 2
MaxExams == 1
MaxSubmits == 2

S_amy == <<"a", "m", "y">>

\* what a request can carry as credentials: a token handed out, junk, nothing
Credentials == Presentable \cup {NoCredentials}

MathRequest(n) ==
    [subject |-> "Mathematics", topic |-> "Algebra", difficulty |-> "easy",
     question_type |-> "mcq", num_questions |-> n]

PhysicsRequest(n) ==
    [subject |-> "Physics", topic |-> "Mechanics", difficulty |-> "hard",
     question_type |-> "short", num_questions |-> n]

\* ids a request can name: the ids of the rows, and one that no row has
QuestionIds == 1..(Len(questions) + 1)

\* bodies sent to PUT /questions/{question_id}
QuestionUpdates == {[question_text |-> T_new], [question_text |-> T_short]}

\* the server answers a request of the questions router
RespondQ(op, r) ==
    /\ Len(r.table) <= MaxQuestions
    /\ questions' = r.table
    /\ resp' = [op |-> op, status |-> r.status, detail |-> Detail(r)]
    /\ UNCHANGED <<users, issued, now, tz, nupdates, exams, user_exams, pending, done>>
    /\ UNCHANGED <<evalVars, signupVars>>

GenerateQuestions(R, L) ==
    \E t \in Credentials, request \in R, response \in L :
        RespondQ("generate_questions", generate_questions(questions, t, request, response))

GetQuestion ==
    \E t \in Credentials, id \in QuestionIds :
        RespondQ("get_question", get_question(questions, t, id))

UpdateQuestion ==
    \E t \in Credentials, id \in QuestionIds, d \in QuestionUpdates :
        RespondQ("update_question", update_question(questions, t, id, d))

DeleteQuestion ==
    \E t \in Credentials, id \in QuestionIds :
        RespondQ("delete_question", delete_question(questions, t, id))

ListQuestions(F, S) ==
    \E t \in Credentials, subject \in F, page_size \in S :
        RespondQ("list_questions",
                 list_questions(questions, t, subject, NoneStr, NoneStr, NoneStr,
                                1, page_size))

SearchQuestions(F, S) ==
    \E t \in Credentials, difficulty \in F, page_size \in S :
        RespondQ("search_questions",
                 search_questions(questions, t, NoneStr, NoneStr, difficulty, NoneStr,
                                  1, page_size))

\* identifiers sent to login, and replies of Gemini, in the questions world
QuestionIdents == {S_mailA, S_mailB}
QuestionReplies == {JsonReply(<<T_one>>), TextReply}

NextQuestions ==
    \/ Signup({S_mailA}, {S_bob}, {P_one})
    \/ Signup({S_mailB}, {S_amy}, {P_one})
    \/ Login(QuestionIdents, {P_one})
    \/ GenerateQuestions({MathRequest(1)}, QuestionReplies)
    \/ GetQuestion
    \/ UpdateQuestion
    \/ DeleteQuestion

SpecQuestions == InitUtc /\ [][NextQuestions]_vars

\* requests of the search world
SearchGenerations == {MathRequest(1), MathRequest(2), PhysicsRequest(1), MathRequest(0)}
ListSubjects == {NoneStr, "Mathematics"}
ListPageSizes == {0, 1}
SearchDifficulties == {NoneStr, "hard", "hardest"}
SearchPageSizes == {1, 2}

NextSearch ==
    \/ Signup({S_mailA}, {S_bob}, {P_one})
    \/ Login({S_mailA}, {P_one})
    \/ GenerateQuestions(SearchGenerations, LlmReplies)
    \/ ListQuestions(ListSubjects, ListPageSizes)
    \/ SearchQuestions(SearchDifficulties, SearchPageSizes)

SpecSearch == InitUtc /\ [][NextSearch]_vars

----------------------------------------------------------------------------
(* The state machine of main.py: chat, exams generated, fetched, submitted. *)
(* The event loop runs one handler at a time and submit_exam never yields   *)
(* (the grading coroutines it awaits call the AI synchronously), so a       *)
(* submit request is received, waits, and is then handled in one step; the  *)
(* requests that wait are handled in any order.                             *)

\* replies of the AI to an exam prompt
R_text == <<"t">>
R_open == <<"t", "{", "t">>
R_close == <<"t", "}">>
R_reversed == <<"}", "t", "{">>
R_badjson == <<"{", "t", "}">>
R_json1 == <<"t", "{", "q", "}", "t">>
R_json2 == <<"{", "k", "q", "q", "}">>
R_nokey == <<"{", "k", "}">>
R_noanswer == <<"{", "q", "e", "}">>

AIReplies ==
    {R_text, R_open, R_close, R_reversed, R_badjson, R_json1, R_json2, R_nokey, R_noanswer}

\* bodies of POST /exams/generate
ExamRequest(user_id, exam_type, num_questions) ==
    [user_id |-> user_id, chat_id |-> NoneStr, title |-> "Quiz", subject |-> "Math",
     exam_type |-> exam_type, num_questions |-> num_questions,
     difficulty |-> "medium", topic |-> NoneStr]

ExamTypes == {"mcq", "written", "oral"}

\* bodies of POST /chat
M_hi == <<"h", "i">>
M_blank == <<" ", " ">>
M_empty == <<>>

ChatMessages == {M_hi, M_blank, M_empty}

\* answers of POST /exams/submit
SheetA == <<[question_id |-> QId(1), answer |-> <<"a">>]>>
SheetB == <<[question_id |-> QId(1), answer |-> <<"B">>]>>
SheetBad == <<[question_id |-> QId(1)]>>

SubmitRequest(exam_id, user_id, answers) ==
    [exam_id |-> exam_id, user_id |-> user_id, answers |-> answers]

\* replies of the AI to the grading prompts of one submission
G_json == GradingReply(R_nokey, 15)
G_text == GradingReply(R_text, 0)
G_over == GradingReply(R_nokey, 200)
G_under == GradingReply(R_nokey, 0 - 5)

GradingRuns == {<<G_json>>, <<G_text>>}

\* the server answers a request of main.py
\* the server answers a request of main.py: the store is written, and an exam
\* that create_exam added is entered in user_exams
RespondStore(op, r, limit) ==
    /\ Len(r.store) > Len(exams) => Len(r.store) <= limit
    /\ exams' = r.store
    /\ user_exams' = IF Len(r.store) > Len(exams)
                     THEN index_exam(user_exams, r.store[Len(r.store)].user_id, Len(r.store))
                     ELSE user_exams
    /\ resp' = [op |-> op, status |-> r.status, detail |-> Detail(r)]

RespondM(op, r) == RespondStore(op, r, MaxExams)

Chat(M, L) ==
    /\ \E message \in M, ai_response \in L :
           LET r == chat(message, ai_response)
           IN  resp' = [op |-> "chat", status |-> r.status, detail |-> Detail(r)]
    /\ UNCHANGED <<users, issued, now, tz, nupdates, questions, exams, user_exams, pending, done>>
    /\ UNCHANGED <<evalVars, signupVars>>

GenerateExam(R, L) ==
    /\ \E request \in R, ai_response \in L :
           RespondM("generate_exam", generate_exam(exams, request, ai_response))
    /\ UNCHANGED <<users, issued, now, tz, nupdates, questions, pending, done>>
    /\ UNCHANGED <<evalVars, signupVars>>

GetExam ==
    /\ \E exam_id \in (DOMAIN exams) \cup {UnknownExamId} :
           RespondM("get_exam", get_exam(exams, exam_id))
    /\ UNCHANGED <<users, issued, now, tz, nupdates, questions, pending, done>>
    /\ UNCHANGED <<evalVars, signupVars>>

\* the status the exam has when a request for it is received
StatusSeen(store, exam_id) ==
    IF exam_id \in DOMAIN store THEN store[exam_id].status ELSE "none"

\* a submit request reaches the server and waits for the event loop; the
\* status the exam has at that moment is kept with it.  An exam_id is a
\* uuid4: a request names an exam that exists, or none
SubmitReceive(Q) ==
    /\ Cardinality(pending) + Len(done) < MaxSubmits
    /\ \E request \in Q :
           /\ request.exam_id \in (DOMAIN exams) \cup {UnknownExamId}
           /\ pending' = pending \cup {[rid |-> Cardinality(pending) + Len(done) + 1,
                                     request |-> request,
                                     seen |-> StatusSeen(exams, request.exam_id)]}
    /\ UNCHANGED <<users, issued, now, tz, resp, nupdates, questions, exams, user_exams, done>>
    /\ UNCHANGED <<evalVars, signupVars>>

\* the event loop runs submit_exam for one of the requests that wait
SubmitHandle(G) ==
    /\ \E p \in pending, replies \in G :
           LET r == submit_exam(exams, p.request, replies)
           IN  /\ RespondM("submit_exam", r)
               /\ pending' = pending \ {p}
               /\ done' = Append(done, [rid |-> p.rid, request |-> p.request,
                                        seen |-> p.seen,
                                        status |-> r.status, body |-> r.body])
    /\ UNCHANGED <<users, issued, now, tz, nupdates, questions>>
    /\ UNCHANGED <<evalVars, signupVars>>

\* requests and replies of the exam world
ExamGenerations == {ExamRequest("u1", t, 1) : t \in ExamTypes}
ExamReplies == {R_text, R_json1, R_nokey}
ExamSubmissions ==
    {SubmitRequest(1, "u1", SheetA), SubmitRequest(1, "u2", SheetA),
     SubmitRequest(UnknownExamId, "u1", SheetA)}

NextExams ==
    \/ Chat(ChatMessages, {R_text})
    \/ GenerateExam(ExamGenerations, ExamReplies)
    \/ GetExam
    \/ SubmitReceive(ExamSubmissions)
    \/ SubmitHandle(GradingRuns)

SpecExams == InitUtc /\ [][NextExams]_vars

\* requests of the submit world: two submissions of the exam's user with
\* different answers, one of another user, one with a malformed answer
SubmitGenerations == {ExamRequest("u1", "mcq", 1), ExamRequest("u1", "written", 1)}
ConcurrentSubmissions ==
    {SubmitRequest(1, "u1", SheetA), SubmitRequest(1, "u1", SheetB),
     SubmitRequest(1, "u2", SheetA), SubmitRequest(1, "u1", SheetBad)}

NextSubmit ==
    \/ GenerateExam(SubmitGenerations, {R_text})
    \/ SubmitReceive(ConcurrentSubmissions)
    \/ SubmitHandle(GradingRuns)

SpecSubmit == InitUtc /\ [][NextSubmit]_vars

\* the world of the exam lists: two users generate exams and submit them
MaxUserExams == 3
ListUsers == {"u1", "u2"}
ListGenerations == {ExamRequest(u, "mcq", 1) : u \in ListUsers}
ListSubmissions == {SubmitRequest(e, "u1", SheetA) : e \in 1..2}
ListGradings == {<<G_text>>}

GenerateUserExam(R, L) ==
    /\ \E request \in R, ai_response \in L :
           RespondStore("generate_exam", generate_exam(exams, request, ai_response),
                        MaxUserExams)
    /\ UNCHANGED <<users, issued, now, tz, nupdates, questions, pending, done>>
    /\ UNCHANGED <<evalVars, signupVars>>

GetUserExams ==
    /\ \E user_id \in ListUsers :
           RespondM("get_user_exams", get_user_exams(exams, user_exams, user_id))
    /\ UNCHANGED <<users, issued, now, tz, nupdates, questions, pending, done>>
    /\ UNCHANGED <<evalVars, signupVars>>

NextUserExams ==
    \/ GenerateUserExam(ListGenerations, {R_text})
    \/ GetUserExams
    \/ SubmitReceive(ListSubmissions)
    \/ SubmitHandle(ListGradings)

SpecUserExams == InitUtc /\ [][NextUserExams]_vars

\* requests of the clock world: one exam, submitted twice while the clock runs
ClockGenerations == {ExamRequest("u1", "mcq", 1)}
ClockSubmissions ==
    {SubmitRequest(1, "u1", SheetA), SubmitRequest(1, "u2", SheetA),
     SubmitRequest(UnknownExamId, "u1", SheetA)}

NextClock ==
    \/ Tick
    \/ GenerateExam(ClockGenerations, {R_text})
    \/ SubmitReceive(ClockSubmissions)
    \/ SubmitHandle(ListGradings)

SpecClock == InitUtc /\ [][NextClock]_vars

\* requests of the written world: a written exam whose answers the AI grades
\* with a score in, above or outside the range of the question
WrittenGenerations == {ExamRequest("u1", "written", n) : n \in 1..2}
WrittenReplies == {R_text, R_json1}
WrittenSubmissions ==
    {SubmitRequest(1, "u1", SheetA), SubmitRequest(1, "u1", <<>>)}
WrittenRuns == {<<G_json>>, <<G_text>>, <<G_over>>}

NextWritten ==
    \/ GenerateExam(WrittenGenerations, WrittenReplies)
    \/ SubmitReceive(WrittenSubmissions)
    \/ SubmitHandle(WrittenRuns)

SpecWritten == InitUtc /\ [][NextWritten]_vars

-----------------------------------------------------------------------------
(* The evaluation world: POST /evaluate/exam of api/evaluation.py and the   *)
(* evaluation service over the answers, results and progress tables.       *)
(* Scores are in tenths of a point, percentages in whole percent (floor).  *)

\* exam submissions the evaluation endpoint receives at most
MaxEvaluations == 2

\* defaults of a progress record (db/models.py)
DefaultLevel == 1

\* the rows the questions table holds in the evaluation world
SeedQuestions ==
    << [id |-> 1, question_type |-> "mcq", correct_answer |-> <<"B">>, points |-> 1,
        subject |-> "Mathematics", topic |-> "Algebra", difficulty |-> "easy"],
       [id |-> 2, question_type |-> "short", correct_answer |-> <<"k">>, points |-> 2,
        subject |-> "Mathematics", topic |-> "Algebra", difficulty |-> "easy"] >>

\* gemini_service._evaluate_mcq_answer
evaluate_mcq_answer(correct_answer, user_answer) ==
    LET is_correct == Upper(correct_answer) = Upper(user_answer)
    IN  [ok |-> TRUE, score |-> IF is_correct THEN 10 ELSE 0, is_correct |-> is_correct]

\* what the call of Gemini for a short or long answer comes to: an
\* evaluation, or an exception (the call or the parsing of its reply failed)
Evaluation(score, is_correct) == [ok |-> TRUE, score |-> score, is_correct |-> is_correct]
EvaluationFailed == [ok |-> FALSE, score |-> 0, is_correct |-> FALSE]

\* AnswerCRUD.create_answer
create_answer(table, answer_data) ==
    LET row == [id |-> Len(table) + 1, created_at |-> Stamp] @@ answer_data
    IN  [table |-> Append(table, row), row |-> row]

\* ResultCRUD.create_result
create_result(table, result_data) ==
    LET row == [id |-> Len(table) + 1, completed_at |-> Stamp] @@ result_data
    IN  [table |-> Append(table, row), row |-> row]

\* the columns of a progress record that the insert leaves to their defaults
ProgressDefaults ==
    [total_questions_attempted |-> 0, total_questions_correct |-> 0, total_score |-> 0,
     streak_count |-> 0, best_streak |-> 0, total_points |-> 0, level |-> DefaultLevel]

\* indices of the progress records of a user in a subject (topic is null)
ProgressRows(table, user_id, subject) ==
    {i \in DOMAIN table : table[i].user_id = user_id /\ table[i].subject = subject}

\* ProgressCRUD.get_or_create_progress
get_or_create_progress(table, user_id, subject) ==
    IF ProgressRows(table, user_id, subject) # {}
    THEN [table |-> table, row |-> table[First(ProgressRows(table, user_id, subject))]]
    ELSE LET row == [id |-> Len(table) + 1, user_id |-> user_id, subject |-> subject,
                     created_at |-> Stamp] @@ ProgressDefaults
         IN  [table |-> Append(table, row), row |-> row]

\* ProgressCRUD.update_progress: the columns of update_data replace the row's
update_progress(table, progress_id, update_data) ==
    [i \in DOMAIN table |->
        IF table[i].id = progress_id THEN update_data @@ table[i] ELSE table[i]]

\* the streak columns that _update_user_progress writes
StreakUpdate(progress, percentage) ==
    IF percentage >= 70
    THEN [streak_count |-> progress.streak_count + 1,
          best_streak |-> Max(progress.best_streak, progress.streak_count + 1)]
    ELSE [streak_count |-> 0]

\* update_data of _update_user_progress that leaves best_streak as it is
ProgressUpdate_keeping_best(progress, result_data) ==
    [total_questions_attempted |->
         progress.total_questions_attempted + result_data.total_questions,
     total_questions_correct |->
         progress.total_questions_correct + result_data.correct_answers,
     total_score |-> progress.total_score + result_data.total_score,
     streak_count |-> IF result_data.percentage >= 70
                      THEN progress.streak_count + 1 ELSE 0,
     total_points |-> progress.total_points + result_data.total_score,
     level |-> ((progress.total_points + result_data.total_score) \div 1000) + 1,
     updated_at |-> Stamp]

\* update_data of _update_user_progress, computed from the record it read;
\* int(total_score * 10) is the score in tenths of a point
ProgressUpdate(progress, result_data) ==
    [total_questions_attempted |->
         progress.total_questions_attempted + result_data.total_questions,
     total_questions_correct |->
         progress.total_questions_correct + result_data.correct_answers,
     total_score |-> progress.total_score + result_data.total_score,
     total_points |-> progress.total_points + result_data.total_score,
     level |-> ((progress.total_points + result_data.total_score) \div 1000) + 1,
     updated_at |-> Stamp]
    @@ StreakUpdate(progress, result_data.percentage)

\* EvaluationService._update_user_progress run without interruption: the
\* progress table after the call
update_user_progress(table, user_id, result_data) ==
    LET got == get_or_create_progress(table, user_id, result_data.subject)
    IN  update_progress(got.table, got.row.id, ProgressUpdate(got.row, result_data))

\* EvaluationService.evaluate_single_answer once the evaluation is there:
\* the answer is stored at once
evaluate_single_answer(db, answer_data, user_id, evaluation) ==
    LET final_score == evaluation.score * answer_data.points
        stored == create_answer(db.answers,
                      [question_id |-> answer_data.question_id, user_id |-> user_id,
                       answer_text |-> answer_data.answer_text,
                       is_correct |-> evaluation.is_correct, score |-> final_score])
    IN  [db |-> [db EXCEPT !.answers = stored.table],
         result |-> [answer_id |-> stored.row.id, score |-> final_score,
                     max_score |-> answer_data.points, is_correct |-> evaluation.is_correct]]

\* the locals of evaluate_exam_submission after the evaluation of answer st.k
Tally(st, evaluation) ==
    [st EXCEPT !.k = st.k + 1,
               !.total_score = st.total_score + evaluation.score,
               !.max_score = st.max_score + st.answers[st.k].points,
               !.correct_answers = st.correct_answers + (IF evaluation.is_correct THEN 1 ELSE 0)]

\* result_data of evaluate_exam_submission, lines 116-137
ResultData(st) ==
    [user_id |-> st.user_id, exam_id |-> st.exam_id,
     total_questions |-> Len(st.answers),
     correct_answers |-> st.correct_answers,
     total_score |-> st.total_score, max_score |-> st.max_score,
     percentage |-> IF st.max_score > 0
                    THEN (st.total_score * 10) \div st.max_score ELSE 0,
     subject |-> IF st.answers # <<>> THEN st.answers[1].subject ELSE ""]

\* a request that is still waiting for Gemini / that has its response
Waiting(db, st) == [db |-> db, st |-> st, status |-> 0, detail |-> D_None]
Responded(db, st, status, detail) == [db |-> db, st |-> st, status |-> status, detail |-> detail]

D_EvalQuestionNotFound == "Question {id} not found"
D_EvalFailed == "Failed to evaluate exam submission: Answer evaluation failed: ..."
D_Evaluated == "ExamSubmissionResponse"

\* evaluate_exam_submission after the last answer, lines 116-142 and 221-224:
\* the result is stored and the progress record is read (or created); the
\* request then waits for the database to take its update
ProgressRead(db, st) ==
    LET result_data == ResultData(st)
        stored == create_result(db.results, result_data)
        got == get_or_create_progress(db.progress, st.user_id, result_data.subject)
    IN  Waiting([db EXCEPT !.results = stored.table, !.progress = got.table],
                [st EXCEPT !.progress = got.row])

\* the rest of _update_user_progress, lines 226-259, and the response: the
\* update computed from the record read is written
ProgressWrite(db, st) ==
    Responded([db EXCEPT !.progress = update_progress(db.progress, st.progress.id,
                                          ProgressUpdate(st.progress, ResultData(st)))],
              st, 200, D_Evaluated)

\* evaluate_exam_submission from answer st.k on, up to its next suspension:
\* the call of Gemini for an answer that is not MCQ, or the update of the
\* progress record
RECURSIVE evaluate_exam_submission(_, _)
evaluate_exam_submission(db, st) ==
    IF st.k > Len(st.answers) THEN ProgressRead(db, st)
    ELSE LET answer_data == st.answers[st.k]
         IN  IF answer_data.question_type = "mcq"
             THEN LET e == evaluate_single_answer(db, answer_data, st.user_id,
                               evaluate_mcq_answer(answer_data.correct_answer,
                                                   answer_data.answer_text))
                  IN  evaluate_exam_submission(e.db, Tally(st, e.result))
             ELSE Waiting(db, st)

\* Gemini has answered the call the request waits for
evaluation_resumed(db, st, evaluation) ==
    IF ~evaluation.ok THEN Responded(db, st, 500, D_EvalFailed)
    ELSE LET e == evaluate_single_answer(db, st.answers[st.k], st.user_id, evaluation)
         IN  evaluate_exam_submission(e.db, Tally(st, e.result))

\* answers_with_details of the endpoint, lines 107-130
AnswerWithDetails(answer_req, question) ==
    [question_id |-> answer_req.question_id, answer_text |-> answer_req.answer_text,
     question_type |-> question.question_type, correct_answer |-> question.correct_answer,
     points |-> question.points, subject |-> question.subject,
     topic |-> question.topic, difficulty |-> question.difficulty]

\* POST /evaluate/exam up to its first suspension or its response
evaluate_exam_submission_endpoint(db, table, rid, user_id, request) ==
    LET st == [rid |-> rid, user_id |-> user_id, exam_id |-> request.exam_id,
               answers |-> <<>>, k |-> 1, total_score |-> 0, max_score |-> 0,
               correct_answers |-> 0, progress |-> NoRow]
    IN  IF \E i \in DOMAIN request.answers :
               ~Found(get_question_by_id(table, request.answers[i].question_id))
        THEN Responded(db, st, 404, D_EvalQuestionNotFound)
        ELSE evaluate_exam_submission(db,
                 [st EXCEPT !.answers =
                     [i \in DOMAIN request.answers |->
                         AnswerWithDetails(request.answers[i],
                             get_question_by_id(table, request.answers[i].question_id))]])

\* the user of the evaluation world, and the answers they submit
EvalUser == "u1"
MissingQuestionId == 9
ExamAnswer(question_id, answer_text) == [question_id |-> question_id, answer_text |-> answer_text]
ExamSubmissionRequest(answers) == [exam_id |-> UnknownExamId, answers |-> answers]
E_right == ExamSubmissionRequest(<<ExamAnswer(1, <<"b">>)>>)
E_wrong == ExamSubmissionRequest(<<ExamAnswer(1, <<"A">>)>>)
E_short == ExamSubmissionRequest(<<ExamAnswer(1, <<"B">>), ExamAnswer(2, <<"k">>)>>)
E_missing == ExamSubmissionRequest(<<ExamAnswer(1, <<"B">>), ExamAnswer(MissingQuestionId, <<"k">>)>>)
E_essay == ExamSubmissionRequest(<<ExamAnswer(2, <<"k">>)>>)
EvalRequests == {E_right, E_wrong, E_short, E_essay, E_missing}
GeminiEvaluations == {Evaluation(10, TRUE), Evaluation(5, FALSE), EvaluationFailed}

\* the outcome r of a step of the request old: the tables are written, the
\* request waits again or its response is sent
EvaluationStep(old, r) ==
    /\ supabase' = r.db
    /\ IF r.status = 0
       THEN /\ evaluating' = (evaluating \ old) \cup {r.st}
            /\ UNCHANGED <<evaluated, resp>>
       ELSE /\ evaluating' = evaluating \ old
            /\ evaluated' = Append(evaluated, [rid |-> r.st.rid, status |-> r.status,
                                               result_data |-> ResultData(r.st)])
            /\ resp' = [op |-> "evaluate_exam_submission", status |-> r.status,
                        detail |-> r.detail]
    /\ UNCHANGED <<users, issued, now, tz, nupdates, questions, exams, user_exams, pending, done>>
    /\ UNCHANGED signupVars

\* a client posts an exam submission; the handler runs to its first suspension
EvaluateReceive(Q) ==
    /\ \E request \in Q :
        /\ Cardinality(evaluating) + Len(evaluated) < MaxEvaluations
        /\ EvaluationStep({}, evaluate_exam_submission_endpoint(supabase, SeedQuestions,
               Cardinality(evaluating) + Len(evaluated) + 1, EvalUser, request))

\* Gemini answers a waiting request; the handler runs to its next suspension
EvaluateResume(G) ==
    /\ \E st \in evaluating, evaluation \in G :
        /\ st.k <= Len(st.answers)
        /\ EvaluationStep({st}, evaluation_resumed(supabase, st, evaluation))

\* the database takes the progress update of a waiting request; the handler
\* responds
EvaluateFinish ==
    /\ \E st \in evaluating :
        /\ st.k > Len(st.answers)
        /\ EvaluationStep({st}, ProgressWrite(supabase, st))

NextEval ==
    \/ EvaluateReceive(EvalRequests)
    \/ EvaluateResume(GeminiEvaluations)
    \/ EvaluateFinish

SpecEval == InitUtc /\ [][NextEval]_vars

-----------------------------------------------------------------------------
(* Concurrent signups: every call of the database is a step of its request, *)
(* and the calls of different requests interleave.                          *)

\* signup requests the server gets at most
MaxSignups == 2

\* the INSERT of signup, lines 42-56
SignupInsert(table, st) ==
    LET c == create_user(table, NormalizeEmail(st.email), st.username, st.password,
                         st.full_name)
    IN  IF c.ok
        THEN Ok(201, UserResponse(c.row), c.table, {})
        ELSE Error(table, 500, D_CreateFailed)

\* signup from its position st.pc to its next call of the database: the
\* outcome has the position it waits at, or "done" and the response
signup_step(table, st) ==
    IF st.pc = "get_user_by_email"
    THEN IF Found(get_user_by_email(table, NormalizeEmail(st.email)))
         THEN [pc |-> "done"] @@ Error(table, 400, D_EmailRegistered)
         ELSE [pc |-> "get_user_by_username"] @@ Error(table, 0, D_None)
    ELSE IF st.pc = "get_user_by_username"
    THEN IF Found(get_user_by_username(table, st.username))
         THEN [pc |-> "done"] @@ Error(table, 400, D_UsernameTaken)
         ELSE [pc |-> "create_user"] @@ Error(table, 0, D_None)
    ELSE [pc |-> "done"] @@ SignupInsert(table, st)

SignupEmails == {S_mailA, S_mailAUpper, S_mailB}
SignupUsernames == {S_bob, S_amy}

\* a client posts a signup that passes the validation of UserCreate
SignupReceive(E, U) ==
    /\ \E e \in E, u \in U :
        /\ Cardinality(signing) + Len(signed) < MaxSignups
        /\ ValidUserCreate(e, u, P_one, N_one)
        /\ signing' = signing \cup
               {[rid |-> Cardinality(signing) + Len(signed) + 1, email |-> e, username |-> u,
                 password |-> P_one, full_name |-> N_one, pc |-> "get_user_by_email"]}
        /\ UNCHANGED <<users, issued, now, tz, resp, nupdates, questions, exams, user_exams, pending,
                       done, signed>>
        /\ UNCHANGED evalVars

\* the database answers the call a signup waits for
SignupStep ==
    /\ \E st \in signing :
        LET r == signup_step(users, st)
        IN  /\ users' = r.table
            /\ IF r.pc = "done"
               THEN /\ signing' = signing \ {st}
                    /\ signed' = Append(signed, [rid |-> st.rid, email |-> st.email,
                                                 username |-> st.username,
                                                 status |-> r.status, body |-> r.body])
                    /\ resp' = [op |-> "signup", status |-> r.status, detail |-> Detail(r)]
               ELSE /\ signing' = (signing \ {st}) \cup {[st EXCEPT !.pc = r.pc]}
                    /\ UNCHANGED <<signed, resp>>
            /\ UNCHANGED <<issued, now, tz, nupdates, questions, exams, user_exams, pending, done>>
            /\ UNCHANGED evalVars

NextSignups ==
    \/ SignupReceive(SignupEmails, SignupUsernames)
    \/ SignupStep

SpecSignups == InitUtc /\ [][NextSignups]_vars

----------------------------------------------------------------------------
(* Properties.  A handler's outcome is a function of the table, the clock   *)
(* and the request, so a property of every response a request can get is    *)
(* an invariant that quantifies over the requests clients can send.         *)

TokenTypes == {"access", "refresh"}

\* the statuses the handlers behind get_current_user_id answer a bearer token with
ProtectedStatuses(t) ==
    {get_current_user(users, t).status,
     logout(users, t).status,
     verify_token_endpoint(users, t).status}
    \cup {update_profile(users, t, d).status : d \in UpdateBodies}
    \cup {change_password(users, t, c, n).status :
            c \in PasswordInputs, n \in NewPasswords}

\* C1: verify_token accepts a token only for the type the endpoint expects: a
\* refresh token gets 401 from every handler behind get_current_user_id, and an
\* access token gets 401 from POST /auth/refresh.
C1_TokenTypeDiscrimination ==
    \A t \in issued :
        /\ \A ty \in TokenTypes : verify_token(t, ty).ok => t.type = ty
        /\ t.type = "refresh" => ProtectedStatuses(t) = {401}
        /\ t.type = "access" => refresh_token(users, t).status = 401

\* a token of the wrong type was presented to a protected handler and refused
C1_Witness ==
    /\ resp.op \in {"me", "update_profile", "change_password", "logout", "verify_token"}
    /\ resp.status = 401
    /\ resp.detail = D_InvalidType

\* C2: a token is accepted at every time up to its expiry (issue time plus its
\* lifetime, the value of its exp field) and rejected at every later time.
C2_TokenExpiry ==
    \A t \in issued :
        /\ t.type = "access" => (get_current_user_id(t).ok <=> now <= t.exp)
        /\ t.type = "refresh" => (get_refresh_token_user_id(t).ok <=> now <= t.exp)

Accepted(t) ==
    IF t.type = "access" THEN get_current_user_id(t).ok
    ELSE refresh_token(users, t).status = 200

\* C4: a logout or a refresh writes nothing, and every token that was accepted
\* before it is accepted after it (there is no revocation and no rotation).
C4_NoRevocation ==
    [][(now' = now /\ resp'.op \in {"logout", "refresh"})
         => /\ users' = users
            /\ resp'.op = "logout" => issued' = issued
            /\ \A t \in issued : Accepted(t) => Accepted(t)']_vars

\* after a successful logout the tokens of the session are still accepted
C4_Witness ==
    /\ resp.op = "logout"
    /\ resp.status = 200
    /\ \E a \in issued, b \in issued :
        /\ a.type = "access" /\ Accepted(a)
        /\ b.type = "refresh" /\ Accepted(b)

EmailStored(table, email) == \E i \in DOMAIN table : table[i].email = email
UsernameStored(table, username) == \E i \in DOMAIN table : table[i].username = username

\* C5 as stated: a signup whose email is stored gets 400 'Email already
\* registered', a signup whose username is stored gets 400 'Username already
\* taken', and the table is unchanged.
C5_DuplicateSignup ==
    \A e \in EmailInputs, u \in UsernameInputs, p \in SignupPasswords :
        LET r == signup(users, e, u, p, N_one)
        IN  ValidUserCreate(e, u, p, N_one) =>
              /\ EmailStored(users, NormalizeEmail(e)) =>
                    /\ r.status = 400
                    /\ r.body.detail = D_EmailRegistered
                    /\ r.table = users
              /\ UsernameStored(users, u) =>
                    /\ r.status = 400
                    /\ r.body.detail = D_UsernameTaken
                    /\ r.table = users

\* C5 amended: the username message is the answer when the email is not stored
\* as well; a signup with both stored gets the email message.
C5_DuplicateSignupAmended ==
    \A e \in EmailInputs, u \in UsernameInputs, p \in SignupPasswords :
        LET r == signup(users, e, u, p, N_one)
        IN  ValidUserCreate(e, u, p, N_one) =>
              /\ EmailStored(users, NormalizeEmail(e)) =>
                    /\ r.status = 400
                    /\ r.body.detail = D_EmailRegistered
                    /\ r.table = users
              /\ (UsernameStored(users, u) /\ ~EmailStored(users, NormalizeEmail(e))) =>
                    /\ r.status = 400
                    /\ r.body.detail = D_UsernameTaken
                    /\ r.table = users

\* a signup was refused for its username
C5_Witness ==
    /\ resp.op = "signup"
    /\ resp.status = 400
    /\ resp.detail = D_UsernameTaken

\* a login response that carries the tokens of user_id
LoginSucceeds(r, user_id) ==
    /\ r.status = 200
    /\ DOMAIN r.body = {"access_token", "refresh_token", "token_type", "expires_in"}
    /\ r.body.token_type = "bearer"
    /\ r.body.access_token.sub = user_id
    /\ r.body.refresh_token.sub = user_id

\* C6: for every stored active user a login with a password that verifies
\* succeeds, with the user's email as identifier and with the user's username.
C6_LoginSucceeds ==
    \A i \in DOMAIN users : \A p \in PasswordInputs :
        (users[i].is_active /\ verify_password(p, users[i].hashed_password)) =>
            /\ LoginSucceeds(login(users, users[i].email, p), users[i].id)
            /\ LoginSucceeds(login(users, users[i].username, p), users[i].id)

\* the identifier is the email or the username of a stored user
IdentStored(table, ident) == EmailStored(table, ident) \/ UsernameStored(table, ident)

\* C7: a login whose identifier matches no user, or whose password does not
\* verify, gets 401 with 'Invalid credentials' in the detail, no tokens, and
\* writes nothing (last_login keeps its value).
C7_LoginRefused ==
    \A i \in IdentInputs, p \in PasswordInputs :
        LET user == LoginLookup(users, i)
            r == login(users, i, p)
        IN  (\/ ~IdentStored(users, i)
             \/ (Found(user) /\ ~verify_password(p, user.hashed_password))) =>
              /\ r.status = 401
              /\ Contains(r.body.detail, InvalidCredentialsPhrase)
              /\ r.tokens = {}
              /\ r.table = users

\* C8: once change-password has succeeded, a login with the new password
\* succeeds and a login with the previous password, when it differs, gets 401.
C8_LoginAfterChange ==
    \A t \in issued : \A c \in PasswordInputs, n \in NewPasswords :
        LET r == change_password(users, t, c, n)
            email == get_user_by_id(users, t.sub).email
        IN  r.status = 200 =>
              /\ login(r.table, email, n).status = 200
              /\ c # n => login(r.table, email, c).status = 401

\* C9: change-password with a current_password that does not verify against
\* the stored hash gets 400 'Current password is incorrect' and writes nothing.
C9_WrongCurrentPassword ==
    \A t \in issued : \A c \in PasswordInputs, n \in NewPasswords :
        LET r == change_password(users, t, c, n)
            user == get_user_by_id(users, t.sub)
        IN  (/\ get_current_user_id(t).ok
             /\ Found(user)
             /\ ~verify_password(c, user.hashed_password)) =>
              /\ r.status = 400
              /\ r.body.detail = D_CurrentIncorrect
              /\ r.table = users

\* a change-password was refused for its current_password
C9_Witness ==
    /\ resp.op = "change_password"
    /\ resp.status = 400
    /\ resp.detail = D_CurrentIncorrect

\* the bodies of the responses signup, get-profile and update-profile can send
ProfileBodies ==
    {signup(users, e, u, p, N_one).body :
        e \in EmailInputs, u \in UsernameInputs, p \in SignupPasswords}
    \cup {get_current_user(users, t).body : t \in Presentable}
    \cup {update_profile(users, t, d).body : t \in Presentable, d \in UpdateBodies}

\* C10: no response body of signup, get-profile or update-profile has the
\* field hashed_password.
C10_NoHashedPassword ==
    \A b \in ProfileBodies : "hashed_password" \notin DOMAIN b

\* a profile was returned for a stored row, which holds a hashed_password
C10_Witness ==
    /\ resp.op \in {"signup", "me", "update_profile"}
    /\ resp.status \in {200, 201}
    /\ \E i \in DOMAIN users : "hashed_password" \in DOMAIN users[i]
    /\ \E b \in ProfileBodies : "email" \in DOMAIN b

\* the outcomes of the auth handlers behind get_current_user_id for credentials t
ProtectedAuthOutcomes(t) ==
    {get_current_user(users, t), logout(users, t), verify_token_endpoint(users, t)}
    \cup {update_profile(users, t, d) : d \in UpdateBodies}
    \cup {change_password(users, t, c, n) : c \in PasswordInputs, n \in NewPasswords}

\* the outcomes of the handlers of the questions router for credentials t
ProtectedQuestionOutcomes(t) ==
    {generate_questions(questions, t, MathRequest(1), response) :
        response \in {JsonReply(<<T_one>>), TextReply}}
    \cup {get_question(questions, t, id) : id \in QuestionIds}
    \cup {delete_question(questions, t, id) : id \in QuestionIds}
    \cup {update_question(questions, t, id, d) : id \in QuestionIds, d \in QuestionUpdates}
    \cup {list_questions(questions, t, NoneStr, NoneStr, NoneStr, NoneStr, 1, 1),
          search_questions(questions, t, NoneStr, NoneStr, NoneStr, NoneStr, 1, 1)}

\* credentials that carry no bearer token, or one that verify_token refuses
Unauthenticated ==
    {NoCredentials, Garbage} \cup {t \in issued : ~verify_token(t, "access").ok}

\* C11: a request to a handler behind get_current_user_id that carries no
\* bearer token or an invalid one is answered 401, writes nothing to the
\* database and makes no call to the LLM.
C11_UnauthenticatedRefused ==
    \A t \in Unauthenticated :
        /\ \A r \in ProtectedAuthOutcomes(t) :
              r.status = 401 /\ r.table = users /\ r.tokens = {}
        /\ \A r \in ProtectedQuestionOutcomes(t) :
              r.status = 401 /\ r.table = questions /\ r.llm = 0

S_bad == <<"b", "a", "d">>

\* bodies of PUT /auth/me with a value that the user schemas do not admit
InvalidUpdateBodies ==
    {[email |-> S_bad],
     [username |-> S_bo],
     [full_name |-> Repeat("n", FullNameMaxLen + 1)]}

\* C12: a profile update whose body carries an invalid value (an email that is
\* no address, a username that is too short, a name that is too long) is
\* answered 422 and the users table is unchanged.
C12_InvalidUpdateRejected ==
    \A t \in issued : \A d \in InvalidUpdateBodies :
        LET r == update_profile(users, t, d)
        IN  (get_current_user_id(t).ok /\ Found(get_user_by_id(users, t.sub))) =>
              /\ r.status = 422
              /\ r.table = users

\* C13: once a delete of a question by its owner has answered success, a get
\* of that question id on the table the delete leaves behind answers 404.
C13_DeletedQuestionGone ==
    \A t \in issued : \A id \in QuestionIds :
        LET r == delete_question(questions, t, id)
        IN  r.status = 200 =>
              \A g \in issued :
                  get_current_user_id(g).ok => get_question(r.table, g, id).status = 404

\* C14: update_question applies the given fields to the stored question and
\* returns the updated question when the caller is the question's created_by
\* user; for any other authenticated caller it answers 403 and the table is
\* unchanged; for an unknown question id it answers 404.
C14_UpdateByOwnerOnly ==
    \A t \in issued : \A id \in QuestionIds : \A d \in QuestionUpdates :
        LET r == update_question(questions, t, id, d)
            q == get_question_by_id(questions, id)
        IN  (get_current_user_id(t).ok /\ ValidQuestionUpdate(d)) =>
              IF ~Found(q)
              THEN r.status = 404 /\ r.table = questions
              ELSE IF q.created_by = t.sub
              THEN /\ r.status = 200
                   /\ r.body = QuestionResponse(get_question_by_id(r.table, id))
                   /\ \A f \in DOMAIN d : get_question_by_id(r.table, id)[f] = d[f]
                   /\ Len(r.table) = Len(questions)
                   /\ \A j \in DOMAIN questions :
                         questions[j].id # id => r.table[j] = questions[j]
              ELSE r.status = 403 /\ r.table = questions

\* an update by a caller who is not the owner was refused, and an update by an
\* owner has been applied
C14_Witness ==
    /\ resp.op = "update_question"
    /\ resp.status = 403
    /\ \E j \in DOMAIN questions : questions[j].question_text = T_new

\* C15: a successful generation request for N questions returns exactly N
\* questions and reports total_generated = N, whatever the number of
\* questions in the reply of the LLM.
C15_GeneratesRequestedNumber ==
    \A t \in issued :
      \A request \in {MathRequest(1), MathRequest(2), PhysicsRequest(1)} :
        \A response \in LlmReplies :
            LET r == generate_questions(questions, t, request, response)
            IN  r.status = 200 =>
                  /\ Len(r.body.questions) = request.num_questions
                  /\ r.body.total_generated = request.num_questions

\* filter values and paging values of search and list requests
SubjectFilters == {NoneStr, "", "Mathematics", "Physics", "Chemistry"}
DifficultyFilters == {NoneStr, "easy", "hard", "hardest"}
TypeFilters == {NoneStr, "mcq", "short"}
Pages == {1, 2}
PageSizes == {0, 1, 2, PageSizeMax, PageSizeMax + 1}

\* every question of a 200 body has the values the filters ask for, and the
\* body holds at most page_size questions
FilteredPage(r, subject, difficulty, question_type, page_size) ==
    r.status = 200 =>
        /\ Len(r.body.questions) <= page_size
        /\ \A i \in DOMAIN r.body.questions :
              /\ Truthy(subject) => r.body.questions[i].subject = subject
              /\ Truthy(difficulty) => r.body.questions[i].difficulty = difficulty
              /\ Truthy(question_type) => r.body.questions[i].question_type = question_type

HasJsonObject(reply) ==
    \E i \in DOMAIN reply : \E j \in DOMAIN reply : json_loads(SubSeq(reply, i, j)).ok

\* a question has the fields of the exam type
QuestionOfType(q, exam_type) ==
    IF exam_type = "mcq"
    THEN {"id", "question", "options", "correct_answer"} \subseteq DOMAIN q
    ELSE {"id", "question", "max_points"} \subseteq DOMAIN q /\ "options" \notin DOMAIN q

\* num_questions is an int without bounds in ExamGenerateRequest
ExamSizes == {0 - 1, 0, 1, 2, 3}

\* C17: when the reply of the AI holds no parseable JSON object, generate_exam
\* answers 200 after one call to the AI, and the exam it stores and returns is
\* in progress and has exactly num_questions questions of the requested type.
C17_PlaceholderExam ==
    \A exam_type \in {"mcq", "written"}, n \in ExamSizes, reply \in AIReplies :
        ~HasJsonObject(reply) =>
            LET r == generate_exam(exams, ExamRequest("u1", exam_type, n), reply)
            IN  /\ r.status = 200
                /\ r.llm = 1
                /\ Len(r.store) = Len(exams) + 1
                /\ r.store[Len(r.store)].status = "in_progress"
                /\ r.store[Len(r.store)].exam_data.questions = r.body.questions
                /\ Len(r.body.questions) = n
                /\ r.body.total_questions = n
                /\ \A i \in DOMAIN r.body.questions :
                       QuestionOfType(r.body.questions[i], exam_type)

\* the same for the sizes a list can have: it holds
C17_PlaceholderExamNonNegative ==
    \A exam_type \in {"mcq", "written"}, n \in ExamSizes \ {0 - 1}, reply \in AIReplies :
        ~HasJsonObject(reply) =>
            LET r == generate_exam(exams, ExamRequest("u1", exam_type, n), reply)
            IN  /\ r.status = 200
                /\ r.llm = 1
                /\ Len(r.store) = Len(exams) + 1
                /\ r.store[Len(r.store)].status = "in_progress"
                /\ Len(r.body.questions) = n
                /\ r.body.total_questions = n
                /\ \A i \in DOMAIN r.body.questions :
                       QuestionOfType(r.body.questions[i], exam_type)

\* C18: chat with an empty or whitespace-only message answers 400, and
\* generate_exam with an exam_type other than mcq and written answers 400 and
\* creates no exam.
C18_InvalidRequestsRefused ==
    /\ \A message \in ChatMessages, ai_response \in AIReplies :
           Strip(message) = <<>> => chat(message, ai_response).status = 400
    /\ \A exam_type \in ExamTypes \ {"mcq", "written"}, n \in ExamSizes, reply \in AIReplies :
           LET r == generate_exam(exams, ExamRequest("u1", exam_type, n), reply)
           IN  r.status = 400 /\ r.store = exams

\* what does hold of these requests: no exam is created and the AI is not called
C18_InvalidRequestsCreateNothing ==
    /\ \A message \in ChatMessages, ai_response \in AIReplies :
           Strip(message) = <<>> => chat(message, ai_response).llm = 0
    /\ \A exam_type \in ExamTypes \ {"mcq", "written"}, n \in ExamSizes, reply \in AIReplies :
           LET r == generate_exam(exams, ExamRequest("u1", exam_type, n), reply)
           IN  r.status = 500 /\ r.store = exams /\ r.llm = 0

\* the requests handled so far that were received while exam e was in
\* progress, sent by its user with well-formed answers
Submissions(e) ==
    {i \in DOMAIN done :
        /\ done[i].request.exam_id = e
        /\ done[i].seen = "in_progress"
        /\ done[i].request.user_id = exams[e].user_id
        /\ HasAnswerKeys(done[i].request.answers)}

\* the requests for exam e that were answered 200
Graded(e) == {i \in DOMAIN done : done[i].request.exam_id = e /\ done[i].status = 200}

HasResults(exam) == DOMAIN exam.exam_data.results # {}

SubmitUsers == {"u1", "u2"}
SubmitSheets == {SheetA, SheetB, SheetBad, <<>>}

\* C21: a submit_exam request answered 404 (unknown exam), 403 (user_id is not
\* the exam's) or 400 (exam already completed) leaves the exam store as it
\* was: status, user_answers, results and updated_at of every exam keep their
\* values.
C21_FailedSubmitChangesNothing ==
    \A exam_id \in (DOMAIN exams) \cup {UnknownExamId}, user_id \in SubmitUsers,
       answers \in SubmitSheets, replies \in GradingRuns :
        LET r == submit_exam(exams, SubmitRequest(exam_id, user_id, answers), replies)
        IN  r.status \in {400, 403, 404} => r.store = exams

\* an exam was completed at one time and a later submission for it was
\* refused with 400 at another time
C21_Witness ==
    /\ Len(exams) = 1
    /\ exams[1].status = "completed"
    /\ exams[1].updated_at < LocalNow
    /\ Len(done) = 2
    /\ done[2].status = 400
    /\ resp = [op |-> "submit_exam", status |-> 400, detail |-> D_AlreadySubmitted]

\* the exams generate_exam stores, for every size and every reply of the AI
GeneratedExams(exam_type) ==
    {r.store[1] : r \in {g \in {generate_exam(<<>>, ExamRequest("u1", exam_type, n), reply) :
                                    n \in ExamSizes, reply \in AIReplies} : g.status = 200}}

Ans(i, a) == [question_id |-> QId(i), answer |-> a]

\* answer sheets: none, right and wrong answers in either case, an answer for
\* a question the exam does not have
McqSheets ==
    {<<>>, <<Ans(1, <<"a">>)>>, <<Ans(1, <<"B">>)>>, <<Ans(1, <<"b">>), Ans(2, <<"B">>)>>,
     <<Ans(9, <<"B">>)>>, <<Ans(2, <<"b">>), Ans(9, <<"A">>)>>, <<Ans(1, <<>>)>>}

\* the questions of the exam for which the sheet holds an answer that equals
\* the correct_answer ignoring case
AnsweredCorrectly(exam, answers) ==
    {i \in DOMAIN exam.exam_data.questions :
        \E j \in DOMAIN answers :
            /\ answers[j].question_id = exam.exam_data.questions[i].id
            /\ Upper(answers[j].answer) = Upper(exam.exam_data.questions[i].correct_answer)}

\* C22: the score of grade_mcq_exam is the number of questions of the exam
\* whose submitted answer equals the correct_answer ignoring case (a question
\* without a submitted answer is incorrect, answers for other ids are
\* ignored); 0 <= score <= max_score = number of questions; the percentage of
\* an exam without questions is 0.
C22_McqScore ==
    \A exam \in GeneratedExams("mcq"), answers \in McqSheets :
        LET r == grade_mcq_exam(exam, answers)
        IN  /\ r.score = Cardinality(AnsweredCorrectly(exam, answers))
            /\ 0 <= r.score /\ r.score <= r.max_score
            /\ r.max_score = Len(exam.exam_data.questions)
            /\ Len(exam.exam_data.questions) = 0 => r.percentage = 0

\* the same for the exams whose questions all have a correct_answer: it holds
C22_McqScoreWithKeys ==
    \A exam \in GeneratedExams("mcq"), answers \in McqSheets :
        (\A i \in DOMAIN exam.exam_data.questions :
            exam.exam_data.questions[i].correct_answer # <<>>) =>
        LET r == grade_mcq_exam(exam, answers)
        IN  /\ r.score = Cardinality(AnsweredCorrectly(exam, answers))
            /\ 0 <= r.score /\ r.score <= r.max_score
            /\ r.max_score = Len(exam.exam_data.questions)
            /\ Len(exam.exam_data.questions) = 0 => r.percentage = 0

\* written answers: none, blank, and texts around the lengths the fallback
\* grading tells apart (the blanks at the ends are stripped)
WrittenAnswers ==
    {<<>>, <<" ", " ">>, Repeat("w", 1), <<" ">> \o Repeat("w", 19) \o <<" ">>,
     Repeat("w", 20), Repeat("w", 49), Repeat("w", 50), Repeat("w", 99), Repeat("w", 100)}

\* the exams of one type in the store
StoredExams(exam_type) ==
    {exams[e] : e \in {x \in DOMAIN exams : exams[x].exam_type = exam_type}}

\* answer sheets of a written exam: an answer for question 1, or none
WrittenSheets == {<<>>} \cup {<<Ans(1, a)>> : a \in WrittenAnswers}

\* replies of the AI to the grading prompts
WrittenGradings == {<<G_json>>, <<G_text>>, <<G_over>>, <<G_under>>, <<GradingReply(R_badjson, 15)>>}

ProgressSamples ==
    {[id |-> 1, user_id |-> EvalUser, subject |-> "Mathematics", created_at |-> Stamp,
      total_questions_attempted |-> 4, total_questions_correct |-> 2, total_score |-> p,
      total_points |-> p, level |-> (p \div 1000) + 1,
      streak_count |-> s, best_streak |-> s + b] :
        p \in {0, 995, 1990}, s \in {0, 2}, b \in {0, 1}}

ResultSamples ==
    {[user_id |-> EvalUser, exam_id |-> UnknownExamId, total_questions |-> 3,
      correct_answers |-> c, total_score |-> t, max_score |-> 3,
      percentage |-> (t * 10) \div 3, subject |-> "Mathematics"] :
        c \in {0, 3}, t \in {0, 5, 20, 21, 30}}

\* the progress tables the samples are taken from: one record, or none yet
ProgressTables == {<<>>} \cup {<<p>> : p \in ProgressSamples}

\* C24: after every call of _update_user_progress the stored record has
\* level = (total_points div 1000) + 1 and streak_count = the previous
\* streak_count + 1 when the percentage is at least 70 and 0 otherwise, and
\* best_streak >= streak_count, from every record where that held and in
\* every record of a reachable progress table.
C24_ProgressRecord ==
    /\ \A table \in ProgressTables, result_data \in ResultSamples :
           LET previous == get_or_create_progress(table, EvalUser, "Mathematics").row
               after == update_user_progress(table, EvalUser, result_data)
           IN  /\ Len(after) = 1
               /\ after[1].level = (after[1].total_points \div 1000) + 1
               /\ after[1].total_points = previous.total_points + result_data.total_score
               /\ after[1].streak_count = IF result_data.percentage >= 70
                                          THEN previous.streak_count + 1 ELSE 0
               /\ after[1].best_streak >= after[1].streak_count
    /\ \A i \in DOMAIN supabase.progress :
           /\ supabase.progress[i].level = (supabase.progress[i].total_points \div 1000) + 1
           /\ supabase.progress[i].best_streak >= supabase.progress[i].streak_count

\* two submissions were evaluated: the first won a streak, the second lost it
C24_Witness ==
    /\ Len(evaluated) = 2
    /\ evaluated[1].status = 200 /\ evaluated[1].result_data.percentage >= 70
    /\ evaluated[2].status = 200 /\ evaluated[2].result_data.percentage < 70
    /\ Len(supabase.progress) = 1
    /\ supabase.progress[1].streak_count = 0
    /\ supabase.progress[1].best_streak = 1

EmptyTables == [answers |-> <<>>, results |-> <<>>, progress |-> <<>>]

\* C25: an exam submission to the evaluation endpoint that is answered with
\* an error (404 for a missing question, 500 for a failed evaluation) has
\* written nothing: no answer record, no result record, no progress update.
\* Stated for the first submission the server gets: after its error the
\* tables are as empty as before.
C25_FailedEvaluationWritesNothing ==
    (/\ Len(evaluated) = 1
     /\ evaluating = {}
     /\ evaluated[1].status \in {404, 500}) => supabase = EmptyTables

\* C25, the 404: the step that answers 404 leaves the three tables as they are
C25_MissingQuestionWritesNothing ==
    [][(/\ Len(evaluated') = Len(evaluated) + 1
        /\ evaluated'[Len(evaluated')].status = 404) => supabase' = supabase]_vars

RECURSIVE SumCompleted(_, _)
\* the sum of a column of result_data over the submissions answered with 200
SumCompleted(responses, column) ==
    IF responses = <<>> THEN 0
    ELSE (IF Head(responses).status = 200 THEN Head(responses).result_data[column] ELSE 0)
         + SumCompleted(Tail(responses), column)

Created == {i \in DOMAIN signed : signed[i].status = 201}

\* C27: after any interleaving of concurrent signups no two stored users
\* share an email or a username; of the signups with the same email at most
\* one is answered with 201, and the others are answered with an error and
\* create no user: every stored user is the one a 201 returned.
C27_UniqueUsers ==
    /\ \A i, j \in DOMAIN users :
           i # j => /\ users[i].email # users[j].email
                    /\ users[i].username # users[j].username
    /\ \A i, j \in Created :
           i # j => /\ NormalizeEmail(signed[i].email) # NormalizeEmail(signed[j].email)
                    /\ signed[i].username # signed[j].username
    /\ \A i \in DOMAIN signed : signed[i].status \in {201, 400, 500}
    /\ Len(users) = Cardinality(Created)
    /\ \A i \in DOMAIN users :
           \E j \in Created : /\ signed[j].body.id = users[i].id
                               /\ signed[j].body.email = users[i].email

\* two signups with the same email had both passed the lookups before either
\* inserted: one was answered with 201, the other with 500
C27_Witness ==
    \E i, j \in DOMAIN signed :
        /\ NormalizeEmail(signed[i].email) = NormalizeEmail(signed[j].email)
        /\ signed[i].status = 201
        /\ signed[j].status = 500
        /\ Len(users) = 1

\* the columns update-profile must not write
ProtectedColumns == {"hashed_password", "is_active", "id"}

\* the rows of the table keep their protected columns
KeepsProtected(before, after) ==
    /\ Len(after) = Len(before)
    /\ \A i \in DOMAIN before : \A f \in ProtectedColumns : after[i][f] = before[i][f]

\* change-password writes a hashed_password only for the user of the token and
\* only when current_password verifies against the stored hash
PasswordChangeVerifies ==
    \A t \in Presentable : \A c \in PasswordInputs, n \in NewPasswords :
        LET r == change_password(users, t, c, n)
        IN  /\ Len(r.table) = Len(users)
            /\ \A i \in DOMAIN users :
                   r.table[i].hashed_password # users[i].hashed_password =>
                       /\ get_current_user_id(t).ok
                       /\ users[i].id = get_current_user_id(t).user_id
                       /\ verify_password(c, users[i].hashed_password)
                       /\ r.status = 200

\* C28: hashed_password changes only through change-password with the correct
\* current password; update-profile, whatever its body, modifies neither
\* hashed_password nor is_active nor id.
C28_ProtectedColumns ==
    /\ PasswordChangeVerifies
    /\ \A t \in Presentable : \A d \in UpdateBodies \cup TokenUpdateBodies :
           KeepsProtected(users, update_profile(users, t, d).table)

\* C28 for change-password, and for update-profile with the fields of a
\* profile
C28_PasswordOnlyWithCurrent ==
    /\ PasswordChangeVerifies
    /\ \A t \in Presentable :
           KeepsProtected(users, update_profile(users, t, [full_name |-> N_two]).table)

RECURSIVE Occurrences(_, _)
\* how often an id occurs in a list of ids
Occurrences(ids, id) ==
    IF ids = <<>> THEN 0
    ELSE (IF Head(ids) = id THEN 1 ELSE 0) + Occurrences(Tail(ids), id)

\* the exams created with a user_id, in creation order
CreatedBy(user_id) ==
    LET ids == SelectSeq([i \in DOMAIN exams |-> i], LAMBDA i : exams[i].user_id = user_id)
    IN  [i \in DOMAIN ids |-> exams[ids[i]]]

RECURSIVE SumOccurrences(_, _)
\* how often an id occurs in the lists of a set of users
SumOccurrences(us, id) ==
    IF us = {} THEN 0
    ELSE LET u == CHOOSE x \in us : TRUE
         IN  Occurrences(user_exams[u], id) + SumOccurrences(us \ {u}, id)

\* C29: every id in user_exams[u] is the key of a stored exam whose user_id
\* is u; every stored exam id is in the list of exactly one user, exactly
\* once; get_user_exams(u) returns exactly the exams created with user_id u,
\* in creation order.
C29_UserExamIndex ==
    /\ \A u \in DOMAIN user_exams : \A k \in DOMAIN user_exams[u] :
           /\ user_exams[u][k] \in DOMAIN exams
           /\ exams[user_exams[u][k]].user_id = u
    /\ \A e \in DOMAIN exams : SumOccurrences(DOMAIN user_exams, e) = 1
    /\ \A u \in ListUsers \cup {"nobody"} :
           LET r == get_user_exams(exams, user_exams, u)
               created == CreatedBy(u)
           IN  /\ r.status = 200
               /\ r.body.exams = [i \in DOMAIN created |-> ExamSummary(created[i])]
               /\ storage_get_user_exams(exams, user_exams, u) = created

\* two users have exams, one of them two, one exam is completed, and the
\* list of a user was asked for
C29_Witness ==
    /\ Len(exams) = 3
    /\ exams[1].user_id = "u1" /\ exams[2].user_id = "u2" /\ exams[3].user_id = "u1"
    /\ exams[1].status = "completed"
    /\ user_exams["u1"] = <<1, 3>>
    /\ resp.op = "get_user_exams" /\ resp.status = 200

\* answer sheets of a written exam of two questions: no answer, an answer for
\* one of the questions, for both, and a blank answer
RemarkSheets ==
    {<<>>, <<Ans(1, <<"w">>)>>, <<Ans(2, <<"w">>)>>, <<Ans(1, <<"w">>), Ans(2, <<"w">>)>>,
     <<Ans(1, <<"w">>), Ans(2, <<" ">>)>>}

RemarkGradings == {<<G_json>>, <<G_text>>, <<G_json, G_text>>}

\* the strengths and improvements a question gets from its own grading
OwnRemarks(i, answered, reply) ==
    IF ~answered THEN [strengths |-> <<>>, improvements |-> <<>>]
    ELSE IF GradingParses(reply)
    THEN [strengths |-> AIRemark("strengths", i), improvements |-> AIRemark("improvements", i)]
    ELSE [strengths |-> FallbackRemark("strengths"),
          improvements |-> FallbackRemark("improvements")]

\* C26: in the results of grade_written_exam the strengths and improvements
\* of each question come from that question's own grading; a question with
\* no answer has empty strengths and improvements, whatever was graded
\* before it.
C26_OwnStrengthsAndImprovements ==
    \A exam \in GeneratedExams("written"), answers \in RemarkSheets,
       replies \in RemarkGradings :
        LET r == grade_written_exam(exam, answers, replies).question_results
        IN  \A i \in DOMAIN r :
                LET own == OwnRemarks(i, Strip(r[i].user_answer) # <<>>,
                                      replies[((i - 1) % Len(replies)) + 1])
                IN  /\ r[i].strengths = own.strengths
                    /\ r[i].improvements = own.improvements

\* C26 for the answered questions and for the questions before the first
\* answered one
C26_OwnRemarksUntilAnswerMissing ==
    \A exam \in GeneratedExams("written"), answers \in RemarkSheets,
       replies \in RemarkGradings :
        LET r == grade_written_exam(exam, answers, replies).question_results
        IN  \A i \in DOMAIN r :
                LET own == OwnRemarks(i, Strip(r[i].user_answer) # <<>>,
                                      replies[((i - 1) % Len(replies)) + 1])
                IN  (\/ Strip(r[i].user_answer) # <<>>
                     \/ \A j \in 1..i : Strip(r[j].user_answer) = <<>>)
                    => /\ r[i].strengths = own.strengths
                       /\ r[i].improvements = own.improvements

============================================================================
